---- MODULE Spec2Model ----
(***************************************************************************)
(* A model of py-icare: the model-validation pipeline                      *)
(* (icare/model_validation.py), the split-interval composer                *)
(* (icare/absolute_risk_main.py) and the per-age absolute-risk loop.       *)
(*                                                                         *)
(* Numbers.  Python floats that only ever hold exact small fractions are   *)
(* modelled as exact rationals <<numerator, denominator>>.  A              *)
(* time_of_onset is a float that may be infinite: it is Fin(n), meaning    *)
(* n/OnsetDen years, or PosInf.                                            *)
(***************************************************************************)
EXTENDS Integers, Sequences, FiniteSets, TLC

(***************************************************************************)
(* Bounds of the model.                                                    *)
(***************************************************************************)
MaxAge == 3          \* study ages are drawn from 0..MaxAge
OnsetDen == 2        \* a finite time_of_onset is a multiple of 1/OnsetDen

(***************************************************************************)
(* Exact rationals.                                                        *)
(***************************************************************************)
RECURSIVE GCD(_, _)
GCD(a, b) == IF b = 0 THEN a ELSE GCD(b, a % b)

Abs(x) == IF x < 0 THEN -x ELSE x

Norm(q) ==
    LET g == GCD(Abs(q[1]), q[2])
    IN  IF q[1] = 0 THEN <<0, 1>> ELSE <<q[1] \div g, q[2] \div g>>

RAdd(p, q) == Norm(<<p[1] * q[2] + q[1] * p[2], p[2] * q[2]>>)
RSub(p, q) == Norm(<<p[1] * q[2] - q[1] * p[2], p[2] * q[2]>>)
RMul(p, q) == Norm(<<p[1] * q[1], p[2] * q[2]>>)
RLe(p, q) == p[1] * q[2] <= q[1] * p[2]
RLt(p, q) == p[1] * q[2] < q[1] * p[2]
REq(p, q) == p[1] * q[2] = q[1] * p[2]
RZero == <<0, 1>>
ROne == <<1, 1>>
RInt(n) == <<n, 1>>

(***************************************************************************)
(* Floats that may be infinite (the time_of_onset column).                 *)
(***************************************************************************)
Fin(n) == [kind |-> "fin", num |-> n]
PosInf == [kind |-> "inf", num |-> 0]

\* x <= n and x > n for a float x and an integer n (numpy comparisons)
FloatLeInt(x, n) == x.kind = "fin" /\ x.num <= n * OnsetDen
FloatGtInt(x, n) == x.kind = "inf" \/ x.num > n * OnsetDen
\* n + x >= a and n + x < a for integers n, a and a float x
IntPlusFloatGeInt(n, x, a) == x.kind = "inf" \/ n * OnsetDen + x.num >= a * OnsetDen
IntPlusFloatLtInt(n, x, a) == x.kind = "fin" /\ n * OnsetDen + x.num < a * OnsetDen

Min(a, b) == IF a <= b THEN a ELSE b
Max(a, b) == IF a >= b THEN a ELSE b

RECURSIVE SeqMin(_)
SeqMin(s) == IF Len(s) = 1 THEN s[1] ELSE Min(s[1], SeqMin(Tail(s)))
RECURSIVE SeqMax(_)
SeqMax(s) == IF Len(s) = 1 THEN s[1] ELSE Max(s[1], SeqMax(Tail(s)))

RInv(q) == <<q[2], q[1]>>                 \* 1 / q, for q > 0
RDiv(p, q) == Norm(<<p[1] * q[2], p[2] * q[1]>>)   \* p / q, for q > 0

(***************************************************************************)
(* ModelValidation (icare/model_validation.py).                            *)
(*                                                                         *)
(* study_file   the table pd.read_csv returns: its column names and rows   *)
(* args         the arguments of ModelValidation.__init__                  *)
(* study_data   self.study_data, one record per row; a column the code     *)
(*              adds is a field the record gains                           *)
(* results      self.results, a ModelValidationResults                     *)
(* engine_runs  the AbsoluteRiskModel runs made so far, in order           *)
(* mv_pc        the statement of __init__ that runs next                   *)
(***************************************************************************)
VARIABLES study_file, args, study_data, nested_case_control_study, results,
          engine_runs, mv_pc

mvVars == <<study_file, args, study_data, nested_case_control_study, results,
            engine_runs, mv_pc>>

VARIABLES ar_args, lambda_vals, competing_vals, exp_lp, split,
          results_before_cutpoint, results_after_cutpoint, ar_results, ar_pc

arVars == <<ar_args, lambda_vals, competing_vals, exp_lp, split,
            results_before_cutpoint, results_after_cutpoint, ar_results, ar_pc>>

\* the arguments of validate_absolute_risk_model, None when ModelValidation is
\* constructed directly
VARIABLES call_args

\* check_rates and format_flexible_rate_inputs (icare/check_errors.py), see below
VARIABLES rate_args, rt_lambda_vals, rt_competing_incidence_rates, data_formatted,
          rt_error, rt_pc

rtVars == <<rate_args, rt_lambda_vals, rt_competing_incidence_rates, data_formatted,
            rt_error, rt_pc>>

\* one call of check_age_intervals, of check_family_history or of
\* check_age_lengths (icare/check_errors.py), see below
VARIABLES ck_args, ck_result, ck_pc

ckVars == <<ck_args, ck_result, ck_pc>>

\* the pseudo-random stream of the process: the seed it was last seeded with,
\* how often it was seeded and the engine runs that have drawn from it since
VARIABLES random_stream

vars == <<mvVars, call_args, arVars, rtVars, ckVars, random_stream>>

None == [kind |-> "None"]
IntArg(n) == [kind |-> "int", v |-> n]
ListArg(s) == [kind |-> "list", v |-> s]
StrArg(s) == [kind |-> "str", v |-> s]

\* ---- the seed of an engine run ---------------------------------------------

\* the stream of a process that has not been seeded
UnseededStream == [seed |-> None, seedings |-> 0, draws |-> 0]

\* AbsoluteRiskModel(..., seed): a seed that is given seeds the stream anew
\* (two runs with the same seed and the same inputs make the same draws), a
\* run without a seed goes on with the stream as it is; the run then draws
EngineDraws(stream, seed) ==
    IF seed = None
    THEN [stream EXCEPT !.draws = @ + 1]
    ELSE [seed |-> seed, seedings |-> stream.seedings + 1, draws |-> 1]

\* ---- _set_study_data ------------------------------------------------------

\* study_data["frequency"] = 1 / study_data["sampling_weights"]
Frequency(r) == RInv(r.sampling_weights)

\* study_data["observed_followup"] = study_exit_age - study_entry_age
ObservedFollowup(r) == r.study_exit_age - r.study_entry_age

\* a mutant: the time of onset is compared with the exit age
OnsetAfterFollowupCase_ExitAge(r) ==
    r.observed_outcome = 1 /\ FloatGtInt(r.time_of_onset, r.study_exit_age)

\* the mask onset_after_followup of _set_study_data
OnsetAfterFollowupCase(r) ==
    r.observed_outcome = 1 /\ FloatGtInt(r.time_of_onset, r.observed_followup)

\* a mutant: the outcome is censored and the time of onset is kept
CensorOnsetAfterFollowup_KeepsOnset(r) ==
    IF OnsetAfterFollowupCase(r) THEN [r EXCEPT !.observed_outcome = 0] ELSE r

\* censor cases where the time of onset is after the observed follow-up period
CensorOnsetAfterFollowup(r) ==
    IF OnsetAfterFollowupCase(r)
    THEN [r EXCEPT !.observed_outcome = 0, !.time_of_onset = PosInf]
    ELSE r

LoadRow(r, nested) ==
    LET withFrequency == IF nested THEN r @@ [frequency |-> Frequency(r)] ELSE r
        withFollowup == withFrequency @@
                          [observed_followup |-> ObservedFollowup(withFrequency)]
    IN  CensorOnsetAfterFollowup(withFollowup)

\* the names of predicted_risk_variable_name and linear_predictor_variable_name
\* that are not None: study_data[optional_columns] raises when one is no column
OptionalColumns ==
    {a.v : a \in {args.predicted_risk_variable_name,
                  args.linear_predictor_variable_name} \ {None}}

SetStudyData ==
    /\ UNCHANGED <<arVars, rtVars, ckVars, call_args, random_stream>>
    /\ mv_pc = "set_study_data"
    /\ IF OptionalColumns \subseteq study_file.columns
       THEN LET nested == "sampling_weights" \in study_file.columns
            IN  /\ nested_case_control_study' = nested
                /\ study_data' = [i \in 1..Len(study_file.rows) |->
                                     LoadRow(study_file.rows[i], nested)]
                /\ mv_pc' = "set_predicted_time_interval"
       ELSE /\ mv_pc' = "error"
            /\ UNCHANGED <<study_data, nested_case_control_study>>
    /\ UNCHANGED <<study_file, args, results, engine_runs>>

\* ---- _set_predicted_time_interval -----------------------------------------

Unique(s) == {s[i] : i \in 1..Len(s)}

Years(n) == [n |-> n, unit |-> "years"]

RiskPredictionIntervalLabel(pri) ==
    IF pri.kind = "str" THEN [text |-> "Observed follow-up"]
    ELSE IF pri.kind = "int"
         THEN IF pri.v = 1 THEN [n |-> 1, unit |-> "year"] ELSE Years(pri.v)
         ELSE IF Cardinality(Unique(pri.v)) = 1
              THEN Years(pri.v[1])
              ELSE [text |-> "Varies across individuals"]

PredictedRiskInterval(pri, r, i) ==
    IF pri.kind = "str" THEN r.observed_followup
    ELSE IF pri.kind = "int" THEN pri.v
    ELSE pri.v[i]

SetPredictedTimeInterval ==
    /\ UNCHANGED <<arVars, rtVars, ckVars, call_args, random_stream>>
    /\ mv_pc = "set_predicted_time_interval"
    /\ results' = results @@
          [risk_prediction_interval |->
              RiskPredictionIntervalLabel(args.predicted_risk_interval)]
    /\ study_data' = [i \in 1..Len(study_data) |->
          study_data[i] @@
             [predicted_risk_interval |->
                 PredictedRiskInterval(args.predicted_risk_interval, study_data[i], i)]]
    /\ mv_pc' = "calculate_followup_period"
    /\ UNCHANGED <<study_file, args, nested_case_control_study, engine_runs>>

\* ---- _calculate_followup_period -------------------------------------------

\* study_data["followup"] = study_data["observed_followup"]
InitFollowup(r) == r @@ [followup |-> r.observed_followup]

\* a mutant: the interval is not compared with the observed follow-up
FollowupWithinInterval_AnyInterval(r) ==
    IF FloatLeInt(r.time_of_onset, r.predicted_risk_interval)
    THEN [r EXCEPT !.followup = r.predicted_risk_interval]
    ELSE r

\* follow-up period is the minimum of the predicted risk interval and the
\* observed follow-up period
FollowupWithinInterval(r) ==
    LET onset_within_interval ==
            FloatLeInt(r.time_of_onset, r.predicted_risk_interval)
        interval_smaller_than_followup ==
            r.predicted_risk_interval <= r.observed_followup
    IN  IF onset_within_interval /\ interval_smaller_than_followup
        THEN [r EXCEPT !.followup = r.predicted_risk_interval]
        ELSE r

\* a mutant: the followup is cut and the outcome is kept
CensorOnsetAfterInterval_KeepsOutcome(r) ==
    IF /\ FloatGtInt(r.time_of_onset, r.predicted_risk_interval)
       /\ FloatLeInt(r.time_of_onset, r.observed_followup)
    THEN [r EXCEPT !.followup = r.predicted_risk_interval]
    ELSE r

\* censor cases when the time of onset is after the predicted risk interval
CensorOnsetAfterInterval(r) ==
    LET onset_after_interval ==
            FloatGtInt(r.time_of_onset, r.predicted_risk_interval)
        onset_within_followup ==
            FloatLeInt(r.time_of_onset, r.observed_followup)
    IN  IF onset_after_interval /\ onset_within_followup
        THEN [r EXCEPT !.observed_outcome = 0,
                       !.followup = r.predicted_risk_interval]
        ELSE r

\* a mutant: the comparison of the two periods is reversed
CensorAtPredictionHorizon_Reversed(r) ==
    IF /\ r.observed_followup <= r.predicted_risk_interval
       /\ FloatGtInt(r.time_of_onset, r.observed_followup)
    THEN [r EXCEPT !.followup = r.predicted_risk_interval]
    ELSE r

\* censor cases when onset is after the observed follow-up period
CensorAtPredictionHorizon(r) ==
    LET observed_longer_than_interval ==
            r.observed_followup >= r.predicted_risk_interval
        onset_after_followup ==
            FloatGtInt(r.time_of_onset, r.observed_followup)
    IN  IF observed_longer_than_interval /\ onset_after_followup
        THEN [r EXCEPT !.followup = r.predicted_risk_interval]
        ELSE r

\* a mutant: a record that is censored loses its time of onset
FollowupPeriod_CensorsOnset(r) ==
    LET q == CensorAtPredictionHorizon(
                 CensorOnsetAfterInterval(FollowupWithinInterval(InitFollowup(r))))
    IN  IF q.observed_outcome # r.observed_outcome
        THEN [q EXCEPT !.time_of_onset = PosInf]
        ELSE q

FollowupPeriod(r) ==
    CensorAtPredictionHorizon(
        CensorOnsetAfterInterval(FollowupWithinInterval(InitFollowup(r))))

CalculateFollowupPeriod ==
    /\ UNCHANGED <<arVars, rtVars, ckVars, call_args, random_stream>>
    /\ mv_pc = "calculate_followup_period"
    /\ study_data' = [i \in 1..Len(study_data) |-> FollowupPeriod(study_data[i])]
    /\ mv_pc' = "calculate_risks"
    /\ UNCHANGED <<study_file, args, nested_case_control_study, results, engine_runs>>

\* ---- _calculate_risks -----------------------------------------------------

\* get_absolute_risk_parameters: the keys of icare_model_parameters renamed to
\* AbsoluteRiskModel's parameters (only the ones the model follows)
GetAbsoluteRiskParameters(icare_model_parameters) ==
    [reference_dataset_path |-> icare_model_parameters.model_reference_dataset_path,
     covariate_profile_path |-> icare_model_parameters.apply_covariate_profile_path,
     snp_profile_path |-> icare_model_parameters.apply_snp_profile_path]

Column(data, name) == [i \in 1..Len(data) |-> data[i][name]]

\* both names are given and are columns of study_data (a name that is given is a
\* column of the file, or _set_study_data has raised)
\* a mutant: one of the two names is enough
BothColumnsSupplied_EitherName ==
    \/ /\ args.predicted_risk_variable_name # None
       /\ args.predicted_risk_variable_name.v \in study_file.columns
    \/ /\ args.linear_predictor_variable_name # None
       /\ args.linear_predictor_variable_name.v \in study_file.columns

BothColumnsSupplied ==
    /\ args.predicted_risk_variable_name # None
    /\ args.linear_predictor_variable_name # None
    /\ args.predicted_risk_variable_name.v \in study_file.columns
    /\ args.linear_predictor_variable_name.v \in study_file.columns

RisksEngineRun ==
    LET p == GetAbsoluteRiskParameters(args.icare_model_parameters)
    IN  [caller |-> "_calculate_risks",
         apply_age_start |-> Column(study_data, "study_entry_age"),
         apply_age_interval_length |-> Column(study_data, "followup"),
         reference_dataset_path |-> p.reference_dataset_path,
         covariate_profile_path |-> p.covariate_profile_path,
         snp_profile_path |-> p.snp_profile_path,
         return_reference_risks |-> TRUE,
         seed |-> args.seed]

CalculateRisks ==
    /\ UNCHANGED <<arVars, rtVars, ckVars, call_args>>
    /\ mv_pc = "calculate_risks"
    /\ IF BothColumnsSupplied
       THEN /\ mv_pc' = "calculate_reference_risks"
            /\ UNCHANGED <<study_data, engine_runs, random_stream>>
       ELSE IF args.icare_model_parameters = None
       THEN \* get_absolute_risk_parameters(None) raises
            /\ mv_pc' = "error"
            /\ UNCHANGED <<study_data, engine_runs, random_stream>>
       ELSE /\ engine_runs' = Append(engine_runs, RisksEngineRun)
            /\ random_stream' = EngineDraws(random_stream, RisksEngineRun.seed)
            /\ study_data' = [i \in 1..Len(study_data) |->
                  study_data[i] @@
                     [risk_estimates |-> [engine_run |-> Len(engine_runs) + 1],
                      linear_predictors |-> [engine_run |-> Len(engine_runs) + 1]]]
            /\ mv_pc' = "calculate_reference_risks"
    /\ UNCHANGED <<study_file, args, nested_case_control_study, results>>

\* ---- _calculate_reference_risks -------------------------------------------

\* a mutant: the exit age is taken as the length of the interval
ReferenceFollowup_ExitAge(entry, exit) == exit

ReferenceFollowup(entry, exit) ==
    IF entry.kind = "int"
    THEN IntArg(exit.v - entry.v)
    ELSE ListArg([i \in 1..Min(Len(entry.v), Len(exit.v)) |-> exit.v[i] - entry.v[i]])

ReferenceEngineRun ==
    LET p == GetAbsoluteRiskParameters(args.icare_model_parameters)
    IN  [caller |-> "_calculate_reference_risks",
         apply_age_start |-> args.reference_entry_age,
         apply_age_interval_length |->
             ReferenceFollowup(args.reference_entry_age, args.reference_exit_age),
         reference_dataset_path |-> p.reference_dataset_path,
         covariate_profile_path |-> p.reference_dataset_path,
         snp_profile_path |-> None,
         return_reference_risks |-> TRUE,
         seed |-> args.seed]

SetReferenceRisks(absolute_risk, risk_score) ==
    results @@ [reference |-> [absolute_risk |-> absolute_risk,
                               risk_score |-> risk_score]]

\* the two reference arguments are lists
ReferenceRisksAreLists ==
    /\ args.reference_predicted_risks.kind = "list"
    /\ args.reference_linear_predictors.kind = "list"

CalculateReferenceRisks ==
    /\ UNCHANGED <<arVars, rtVars, ckVars, call_args>>
    /\ mv_pc = "calculate_reference_risks"
    /\ IF args.reference_predicted_risks # None /\ args.reference_linear_predictors # None
       THEN \/ /\ results' = SetReferenceRisks(args.reference_predicted_risks,
                                               args.reference_linear_predictors)
               /\ mv_pc' = "calculate_study_incidence_rates"
               /\ UNCHANGED <<engine_runs, random_stream>>
            \/ \* check_reference_risks may refuse what is not a pair of lists
               /\ ~ReferenceRisksAreLists
               /\ mv_pc' = "error"
               /\ UNCHANGED <<results, engine_runs, random_stream>>
       ELSE IF ~(args.reference_entry_age # None /\ args.reference_exit_age # None)
       THEN /\ mv_pc' = "calculate_study_incidence_rates"
            /\ UNCHANGED <<results, engine_runs, random_stream>>
       ELSE IF \/ args.reference_entry_age.kind # args.reference_exit_age.kind
               \/ args.icare_model_parameters = None
       THEN \* exit - entry of a list and an integer, or
            \* get_absolute_risk_parameters(None), raises
            /\ mv_pc' = "error"
            /\ UNCHANGED <<results, engine_runs, random_stream>>
       ELSE /\ engine_runs' = Append(engine_runs, ReferenceEngineRun)
            /\ random_stream' = EngineDraws(random_stream, ReferenceEngineRun.seed)
            /\ results' = SetReferenceRisks([engine_run |-> Len(engine_runs) + 1],
                                            [engine_run |-> Len(engine_runs) + 1])
            /\ mv_pc' = "calculate_study_incidence_rates"
    /\ UNCHANGED <<study_file, args, study_data, nested_case_control_study>>

\* ---- _calculate_study_incidence_rates -------------------------------------

\* range(a, b) as a list
Range(a, b) == [i \in 1..Max(b - a, 0) |-> a + i - 1]

StudyAges(data) ==
    Range(SeqMin(Column(data, "study_entry_age")) + 1,
          SeqMax(Column(data, "study_exit_age")))

FrequencyVector(data, nested) ==
    [i \in 1..Len(data) |-> IF nested THEN data[i].frequency ELSE ROne]

\* a mutant: a record that enters at the age counts as in study at that age
in_study_at_age_EntryAtAge(r, age) ==
    r.study_entry_age <= age /\ r.study_exit_age >= age

in_study_at_age(r, age) ==
    LET entered_before_age == r.study_entry_age <= age - 1
        not_exited_before_age == r.study_exit_age >= age
    IN  entered_before_age /\ not_exited_before_age

\* age_of_onset = study_entry_age + time_of_onset
onset_at_age(r, age) ==
    /\ IntPlusFloatGeInt(r.study_entry_age, r.time_of_onset, age)
    /\ IntPlusFloatLtInt(r.study_entry_age, r.time_of_onset, age + 1)

\* a mutant: an onset at the age does not count as at or after the age
onset_at_or_after_age_AfterAge(r, age) ==
    IntPlusFloatGeInt(r.study_entry_age, r.time_of_onset, age + 1)

onset_at_or_after_age(r, age) ==
    IntPlusFloatGeInt(r.study_entry_age, r.time_of_onset, age)

\* mask @ frequency, the dot product of a boolean vector and the weights
RECURSIVE Dot(_, _, _)
Dot(mask, frequency, n) ==
    IF n = 0 THEN RZero
    ELSE RAdd(Dot(mask, frequency, n - 1),
              IF mask[n] THEN frequency[n] ELSE RZero)

num_onsets_at_age(data, frequency, age) ==
    Dot([i \in 1..Len(data) |-> in_study_at_age(data[i], age) /\ onset_at_age(data[i], age)],
        frequency, Len(data))

num_in_study_at_age(data, frequency, age) ==
    Dot([i \in 1..Len(data) |->
            in_study_at_age(data[i], age) /\ onset_at_or_after_age(data[i], age)],
        frequency, Len(data))

NaN == [nan |-> TRUE]
Rate(q) == [nan |-> FALSE, rate |-> q]

incidence_at_age(data, frequency, age) ==
    LET n == num_onsets_at_age(data, frequency, age)
        d == num_in_study_at_age(data, frequency, age)
    IN  IF RLt(RZero, d) THEN Rate(RDiv(n, d)) ELSE NaN

StudyIncidence(data, nested) ==
    LET ages == StudyAges(data)
        frequency == FrequencyVector(data, nested)
    IN  [age |-> ages,
         rate |-> [k \in 1..Len(ages) |-> incidence_at_age(data, frequency, ages[k])]]

\* a mutant: the table is computed from the validated cases, a record that
\* the followup derivation has censored counting as without onset
CalculateStudyIncidenceRates_ValidatedCases ==
    /\ UNCHANGED <<arVars, rtVars, ckVars, call_args, random_stream>>
    /\ mv_pc = "calculate_study_incidence_rates"
    /\ results' = results @@
          [incidence_rates |->
              [study |-> StudyIncidence(
                  [i \in 1..Len(study_data) |->
                      IF study_data[i].observed_outcome = 0
                      THEN [study_data[i] EXCEPT !.time_of_onset = PosInf]
                      ELSE study_data[i]],
                  nested_case_control_study)]]
    /\ mv_pc' = "done"
    /\ UNCHANGED <<study_file, args, study_data, nested_case_control_study, engine_runs>>

CalculateStudyIncidenceRates ==
    /\ UNCHANGED <<arVars, rtVars, ckVars, call_args, random_stream>>
    /\ mv_pc = "calculate_study_incidence_rates"
    /\ results' = results @@
          [incidence_rates |->
              [study |-> StudyIncidence(study_data, nested_case_control_study)]]
    /\ mv_pc' = "done"
    /\ UNCHANGED <<study_file, args, study_data, nested_case_control_study, engine_runs>>

\* ---- the inputs of ModelValidation ----------------------------------------

OnsetTimes == {Fin(n) : n \in 0..((MaxAge + 1) * OnsetDen - 1)} \cup {PosInf}

CohortRows ==
    {r \in [observed_outcome : {0, 1}, study_entry_age : 0..MaxAge,
            study_exit_age : 0..MaxAge, time_of_onset : OnsetTimes] :
        r.study_entry_age <= r.study_exit_age}

\* sampling_weights are inclusion probabilities in (0, 1]
SamplingWeights == {<<1, 2>>, <<1, 1>>}

NestedRows == {r @@ [sampling_weights |-> w] : r \in CohortRows, w \in SamplingWeights}

MandatoryColumns ==
    {"observed_outcome", "study_entry_age", "study_exit_age", "time_of_onset"}

\* the validation scenario of the documentation: a case who enters at 50, leaves
\* at 60 and has the onset 8 years after entry
ExampleRow ==
    [observed_outcome |-> 1, study_entry_age |-> 50, study_exit_age |-> 60,
     time_of_onset |-> Fin(8 * OnsetDen)]

\* rows that follow the data convention: a case has a finite time of onset, a
\* record without the outcome has an infinite one
ConventionalRows ==
    {r \in CohortRows : (r.observed_outcome = 1) <=> (r.time_of_onset.kind = "fin")}

CohortFile(rows) == [columns |-> MandatoryColumns, rows |-> rows]

NestedFile(rows, weights) ==
    [columns |-> MandatoryColumns \cup {"sampling_weights"},
     rows |-> [i \in 1..Len(rows) |-> rows[i] @@ [sampling_weights |-> weights[i]]]]

PredictedRiskIntervals(n) ==
    {StrArg("total-followup")} \cup {IntArg(p) : p \in 0..MaxAge}
        \cup {ListArg(l) : l \in [1..n -> 0..MaxAge]}

ExampleIntervals == {IntArg(5), IntArg(10)}

IcareModelParameters ==
    [model_reference_dataset_path |-> StrArg("reference.csv"),
     apply_covariate_profile_path |-> StrArg("profile.csv"),
     apply_snp_profile_path |-> StrArg("snp_profile.csv")]

DefaultArgs ==
    [predicted_risk_interval |-> StrArg("total-followup"),
     icare_model_parameters |-> IcareModelParameters,
     predicted_risk_variable_name |-> None,
     linear_predictor_variable_name |-> None,
     number_of_percentiles |-> IntArg(10),
     linear_predictor_cutoffs |-> None,
     dataset_name |-> StrArg("dataset"),
     model_name |-> StrArg("model"),
     reference_entry_age |-> None,
     reference_exit_age |-> None,
     reference_predicted_risks |-> None,
     reference_linear_predictors |-> None,
     seed |-> None]

\* a file of one row (any row, with or without sampling weights) with every
\* predicted risk interval, or a file of two rows that follow the data
\* convention with the observed follow-up as the predicted risk interval: a
\* cohort in the order of the entry ages, or a nested study whose second row
\* has the larger sampling weight
ValidationInputs ==
    \/ \E r \in CohortRows \cup {ExampleRow} :
       \E pri \in PredictedRiskIntervals(1) \cup ExampleIntervals :
          /\ study_file = CohortFile(<<r>>)
          /\ args = [DefaultArgs EXCEPT !.predicted_risk_interval = pri]
    \/ \E r \in CohortRows, w \in SamplingWeights :
       \E pri \in PredictedRiskIntervals(1) :
          /\ study_file = NestedFile(<<r>>, <<w>>)
          /\ args = [DefaultArgs EXCEPT !.predicted_risk_interval = pri]
    \/ \E r1 \in ConventionalRows, r2 \in ConventionalRows :
          /\ r1.study_entry_age <= r2.study_entry_age
          /\ study_file = CohortFile(<<r1, r2>>)
          /\ args = DefaultArgs
    \/ \E r1 \in ConventionalRows, r2 \in ConventionalRows :
       \E w1 \in SamplingWeights, w2 \in SamplingWeights :
          /\ RLt(w1, w2)
          /\ study_file = NestedFile(<<r1, r2>>, <<w1, w2>>)
          /\ args = DefaultArgs

\* the state at the end of "# setup": the results object holds the two names
StartOfValidation ==
    /\ study_data = <<>>
    /\ nested_case_control_study = FALSE
    /\ results = [dataset_name |-> args.dataset_name, model_name |-> args.model_name]
    /\ engine_runs = <<>>
    /\ mv_pc = "set_study_data"

\* ModelValidation is not under construction
IdleValidation ==
    /\ study_file = CohortFile(<<>>)
    /\ args = DefaultArgs
    /\ study_data = <<>>
    /\ nested_case_control_study = FALSE
    /\ results = <<>>
    /\ engine_runs = <<>>
    /\ mv_pc = "idle"

\* ---- validate_absolute_risk_model (icare/absolute_risk_main.py) -------------

\* the parameters of validate_absolute_risk_model after study_data_path, in
\* the order of its signature
ValidateParameters ==
    <<"predicted_risk_interval", "icare_model_parameters",
      "predicted_risk_variable_name", "linear_predictor_variable_name",
      "reference_entry_age", "reference_exit_age",
      "reference_predicted_risks", "reference_linear_predictors",
      "number_of_percentiles", "linear_predictor_cutoffs",
      "dataset_name", "model_name", "seed">>

\* the parameters of ModelValidation.__init__ after study_data_path, in the
\* order of its signature
ModelValidationParameters ==
    <<"predicted_risk_interval", "icare_model_parameters",
      "predicted_risk_variable_name", "linear_predictor_variable_name",
      "number_of_percentiles", "linear_predictor_cutoffs",
      "dataset_name", "model_name",
      "reference_entry_age", "reference_exit_age",
      "reference_predicted_risks", "reference_linear_predictors", "seed">>

\* the call ModelValidation(study_data_path, predicted_risk_interval, ...): the
\* arguments are written in the order of ValidateParameters and are bound by
\* position, the k-th argument to the k-th parameter of ModelValidation
BindPositional(call) ==
    [name \in {ModelValidationParameters[k] : k \in 1..Len(ModelValidationParameters)} |->
        LET k == CHOOSE j \in 1..Len(ModelValidationParameters) :
                    ModelValidationParameters[j] = name
        IN  call[ValidateParameters[k]]]

\* lines 509-513 and the setup of ModelValidation.__init__
ValidateAbsoluteRiskModel ==
    /\ UNCHANGED <<arVars, rtVars, ckVars, call_args, random_stream>>
    /\ mv_pc = "validate_absolute_risk_model"
    /\ args' = BindPositional(call_args)
    /\ results' = [dataset_name |-> BindPositional(call_args).dataset_name,
                   model_name |-> BindPositional(call_args).model_name]
    /\ mv_pc' = "set_study_data"
    /\ UNCHANGED <<study_file, study_data, nested_case_control_study, engine_runs>>

\* the defaults of validate_absolute_risk_model
DefaultValidateArgs ==
    [predicted_risk_interval |-> StrArg("total-followup"),
     icare_model_parameters |-> IcareModelParameters,
     predicted_risk_variable_name |-> None,
     linear_predictor_variable_name |-> None,
     reference_entry_age |-> None,
     reference_exit_age |-> None,
     reference_predicted_risks |-> None,
     reference_linear_predictors |-> None,
     number_of_percentiles |-> IntArg(10),
     linear_predictor_cutoffs |-> None,
     dataset_name |-> StrArg("Example dataset"),
     model_name |-> StrArg("Example risk prediction model"),
     seed |-> None]

\* a study file with further columns of scores
ScoredFile(rows, columns) ==
    [columns |-> MandatoryColumns \cup columns,
     rows |-> [i \in 1..Len(rows) |-> rows[i] @@ [c \in columns |-> <<i, 2>>]]]

\* records without the outcome
CensoredRows == {r \in ConventionalRows : r.observed_outcome = 0}

ReferenceAges == {None, IntArg(1), ListArg(<<0, 1>>)}
ReferenceExitAges == {None, IntArg(MaxAge), ListArg(<<1, MaxAge>>)}
ReferenceRiskLists == {None, ListArg(<<<<1, 2>>, <<1, 4>>>>)}
ReferenceScoreLists == {None, ListArg(<<<<0, 1>>, <<1, 1>>>>)}

\* the seed of a call: left out or given
Seeds == {None, IntArg(7)}

\* the calls of validate_absolute_risk_model: the reference inputs, the
\* cut-offs and the names given or left at their defaults
ValidateInputs ==
    \E r \in CensoredRows :
    \E entry \in ReferenceAges, exit \in ReferenceExitAges :
    \E risks \in ReferenceRiskLists, scores \in ReferenceScoreLists :
    \E cutoffs \in {None, ListArg(<<0>>)} :
    \E name \in {DefaultValidateArgs.dataset_name, StrArg("cohort")} :
       /\ study_file = CohortFile(<<r>>)
       /\ call_args = [DefaultValidateArgs EXCEPT
                           !.reference_entry_age = entry,
                           !.reference_exit_age = exit,
                           !.reference_predicted_risks = risks,
                           !.reference_linear_predictors = scores,
                           !.linear_predictor_cutoffs = cutoffs,
                           !.dataset_name = name]

\* validate_absolute_risk_model is entered, ModelValidation is not constructed
StartOfValidateCall ==
    /\ args = DefaultArgs
    /\ study_data = <<>>
    /\ nested_case_control_study = FALSE
    /\ results = <<>>
    /\ engine_runs = <<>>
    /\ mv_pc = "validate_absolute_risk_model"

\* the constructions of ModelValidation with the names of a predicted risk
\* column and of a linear predictor column given or not, in a file that has
\* them or not, and with the reference inputs given or not
ScoredValidationInputs ==
    \/ \E r1 \in CensoredRows, columns \in SUBSET {"risk", "lp"} :
       \E risk_name \in {None, StrArg("risk")}, lp_name \in {None, StrArg("lp")} :
       \E pri \in {StrArg("total-followup"), IntArg(1)} :
       \E parameters \in {IcareModelParameters, None} :
          /\ study_file = ScoredFile(<<r1, [r1 EXCEPT !.study_entry_age = 0]>>, columns)
          /\ args = [DefaultArgs EXCEPT !.predicted_risk_interval = pri,
                                        !.icare_model_parameters = parameters,
                                        !.predicted_risk_variable_name = risk_name,
                                        !.linear_predictor_variable_name = lp_name]
    \/ \E r \in CensoredRows :
       \E entry \in ReferenceAges, exit \in ReferenceExitAges :
       \E risks \in ReferenceRiskLists, scores \in ReferenceScoreLists :
       \E parameters \in {IcareModelParameters, None}, seed \in Seeds :
          /\ study_file = CohortFile(<<r>>)
          /\ args = [DefaultArgs EXCEPT !.icare_model_parameters = parameters,
                                        !.reference_entry_age = entry,
                                        !.reference_exit_age = exit,
                                        !.reference_predicted_risks = risks,
                                        !.reference_linear_predictors = scores,
                                        !.seed = seed]

(***************************************************************************)
(* compute_absolute_risk_split_interval (icare/absolute_risk_main.py).     *)
(*                                                                         *)
(* ar_args       the arguments of the call                                 *)
(* lambda_vals   the disease incidence rate of each age of the rate table  *)
(* competing_vals  the competing incidence rate of each age                *)
(* exp_lp        exp(centered linear predictor) of each row of the         *)
(*               profile: .same under the before-cutpoint parameters,      *)
(*               .other under any other set of parameters                  *)
(* split         the local variables of the split path                     *)
(* results_before_cutpoint, results_after_cutpoint, ar_results             *)
(*               what the runs and the call return                         *)
(* ar_pc         the statement of the call that runs next                  *)
(***************************************************************************)
\* ---- the absolute-risk engine: the per-age loop ---------------------------

RMin(p, q) == IF RLe(p, q) THEN p ELSE q

\* instantaneous cause-specific hazard = hazard[t] * exp(centered_lp)
CauseHazard(rate, rr) == RMul(rate, rr)

\* a mutant: the total hazard is not clipped
TotalHazard_Unclipped(cause, competing) == RAdd(cause, competing)

\* total hazard = cause hazard + competing hazard, clipped at 1
TotalHazard(cause, competing) == RMin(ROne, RAdd(cause, competing))

\* one age of the loop: risk += S * cause_hazard, S *= 1 - total_hazard
RECURSIVE AgeLoop(_, _, _, _, _, _, _)
AgeLoop(t, end, S, risk, rr, lam, comp) ==
    IF t >= end THEN [risk |-> risk, S |-> S]
    ELSE LET cause == CauseHazard(lam[t], rr)
             total == TotalHazard(cause, comp[t])
         IN  AgeLoop(t + 1, end, RMul(S, RSub(ROne, total)),
                     RAdd(risk, RMul(S, cause)), rr, lam, comp)

\* the absolute risk of one individual over [start, start + length)
AbsoluteRisk(start, length, rr, lam, comp) ==
    AgeLoop(start, start + length, ROne, RZero, rr, lam, comp).risk

\* check_age_lengths: a scalar is assigned to every row of the profile
Broadcast(arg, n) == IF arg.kind = "int" THEN [i \in 1..n |-> arg.v] ELSE arg.v

\* compute_absolute_risk: the engine run over a profile, packaged
ComputeAbsoluteRisk(apply_age_start, apply_age_interval_length, parameters, rrs) ==
    LET n == Len(rrs)
        starts == Broadcast(apply_age_start, n)
        lengths == Broadcast(apply_age_interval_length, n)
    IN  [method |-> "iCARE - absolute risk",
         model |-> parameters,
         profile |-> [i \in 1..n |->
             [age_interval_start |-> starts[i],
              age_interval_end |-> starts[i] + lengths[i],
              risk_estimates |->
                  AbsoluteRisk(starts[i], lengths[i], rrs[i], lambda_vals, competing_vals)]]]

\* ---- the split path -------------------------------------------------------

BeforeCutpointParameters ==
    <<ar_args.model_covariate_formula_before_cutpoint_path,
      ar_args.model_log_relative_risk_before_cutpoint_path,
      ar_args.model_reference_dataset_before_cutpoint_path,
      ar_args.apply_covariate_profile_before_cutpoint_path,
      ar_args.model_reference_dataset_weights_variable_name_before_cutpoint,
      ar_args.model_family_history_variable_name_before_cutpoint>>

AfterCutpointParameters ==
    <<ar_args.model_covariate_formula_after_cutpoint_path,
      ar_args.model_log_relative_risk_after_cutpoint_path,
      ar_args.model_reference_dataset_after_cutpoint_path,
      ar_args.apply_covariate_profile_after_cutpoint_path,
      ar_args.model_reference_dataset_weights_variable_name_after_cutpoint,
      ar_args.model_family_history_variable_name_after_cutpoint>>

run_split_interval ==
    \/ ar_args.cutpoint # None
    \/ \E i \in 1..4 : AfterCutpointParameters[i] # None

scalar_intervals ==
    /\ ar_args.cutpoint.kind = "int"
    /\ ar_args.apply_age_start.kind = "int"
    /\ ar_args.apply_age_interval_length.kind = "int"

\* the scalar branch
ScalarLengthBeforeCutpoint(cutpoint, apply_age_start, apply_age_interval_length) ==
    LET start_to_cutpoint == cutpoint - apply_age_start
        length == IF start_to_cutpoint < apply_age_interval_length
                  THEN start_to_cutpoint
                  ELSE apply_age_interval_length
    IN  Max(length, 0)

\* a mutant: the after-cutpoint interval restarts at the start age
StartAfterCutpoint_Restart(age_start_before_cutpoint, age_interval_length_before_cutpoint) ==
    age_start_before_cutpoint

StartAfterCutpoint(age_start_before_cutpoint, age_interval_length_before_cutpoint) ==
    age_start_before_cutpoint + age_interval_length_before_cutpoint

\* a mutant: the start age is left out of the end of the interval
LengthAfterCutpoint_NoStart(apply_age_start, apply_age_interval_length, age_start_after_cutpoint) ==
    apply_age_interval_length - age_start_after_cutpoint

LengthAfterCutpoint(apply_age_start, apply_age_interval_length, age_start_after_cutpoint) ==
    apply_age_start + apply_age_interval_length - age_start_after_cutpoint

\* a mutant: the clamp at zero is forgotten
ListLengthBeforeCutpoint_NoFloor(cut, start, interval) == Min(cut - start, interval)

\* the list branch: max(min(cut - start, interval), 0)
ListLengthBeforeCutpoint(cut, start, interval) == Max(Min(cut - start, interval), 0)

Zip2Len(a, b) == Min(Len(a), Len(b))
Zip3Len(a, b, c) == Min(Len(a), Min(Len(b), Len(c)))

SplitAgeIntervals ==
    LET cutpoint == ar_args.cutpoint.v
        apply_age_start == ar_args.apply_age_start.v
        apply_age_interval_length == ar_args.apply_age_interval_length.v
    IN  IF scalar_intervals
        THEN LET before == ScalarLengthBeforeCutpoint(cutpoint, apply_age_start,
                                                      apply_age_interval_length)
                 start_after == StartAfterCutpoint(apply_age_start, before)
             IN  [age_start_before_cutpoint |-> IntArg(apply_age_start),
                  age_interval_length_before_cutpoint |-> IntArg(before),
                  age_start_after_cutpoint |-> IntArg(start_after),
                  age_interval_length_after_cutpoint |->
                      IntArg(LengthAfterCutpoint(apply_age_start,
                                                 apply_age_interval_length, start_after))]
        ELSE LET before == [i \in 1..Zip3Len(cutpoint, apply_age_start,
                                             apply_age_interval_length) |->
                               ListLengthBeforeCutpoint(cutpoint[i], apply_age_start[i],
                                                        apply_age_interval_length[i])]
                 start_after == [i \in 1..Zip2Len(apply_age_start, before) |->
                                    StartAfterCutpoint(apply_age_start[i], before[i])]
             IN  [age_start_before_cutpoint |-> ListArg(apply_age_start),
                  age_interval_length_before_cutpoint |-> ListArg(before),
                  age_start_after_cutpoint |-> ListArg(start_after),
                  age_interval_length_after_cutpoint |->
                      ListArg([i \in 1..Zip3Len(apply_age_start, apply_age_interval_length,
                                                start_after) |->
                                  LengthAfterCutpoint(apply_age_start[i],
                                                      apply_age_interval_length[i],
                                                      start_after[i])])]

\* a mutant: the after-cutpoint parameters are passed on as they were given
DefaultAfterCutpointParameters_KeepNone(before_cutpoint_parameters, after_cutpoint_parameters) ==
    after_cutpoint_parameters

\* an after-cutpoint parameter that is None takes the before-cutpoint parameter
DefaultAfterCutpointParameters(before_cutpoint_parameters, after_cutpoint_parameters) ==
    [i \in 1..Zip2Len(before_cutpoint_parameters, after_cutpoint_parameters) |->
        IF after_cutpoint_parameters[i] = None
        THEN before_cutpoint_parameters[i]
        ELSE after_cutpoint_parameters[i]]

\* exp(centered linear predictor) of the profile rows under a set of parameters
ExpLP(parameters) == IF parameters = BeforeCutpointParameters THEN exp_lp.same ELSE exp_lp.other

\* zip over the cut-point, the start ages and the interval lengths needs three
\* lists; the cut-point None or a scalar among lists raises
SplitArgumentsOk ==
    /\ ar_args.cutpoint # None
    /\ \/ scalar_intervals
       \/ /\ ar_args.cutpoint.kind = "list"
          /\ ar_args.apply_age_start.kind = "list"
          /\ ar_args.apply_age_interval_length.kind = "list"

\* lines 297-357: the split decision, the sub-intervals and the parameters
StartSplitInterval ==
    /\ UNCHANGED <<mvVars, rtVars, ckVars, call_args, random_stream>>
    /\ ar_pc = "start"
    /\ IF ~run_split_interval
       THEN /\ ar_pc' = "no_split"
            /\ UNCHANGED split
       ELSE IF ~SplitArgumentsOk
       THEN /\ ar_pc' = "error"
            /\ UNCHANGED split
       ELSE /\ split' = SplitAgeIntervals @@
                 [after_cutpoint_parameters |->
                     DefaultAfterCutpointParameters(BeforeCutpointParameters,
                                                    AfterCutpointParameters)]
            /\ ar_pc' = "before_cutpoint"
    /\ UNCHANGED <<ar_args, lambda_vals, competing_vals, exp_lp,
                   results_before_cutpoint, results_after_cutpoint, ar_results>>

\* lines 360-377
ComputeBeforeCutpoint ==
    /\ UNCHANGED <<mvVars, rtVars, ckVars, call_args>>
    /\ random_stream' = EngineDraws(random_stream, ar_args.seed)
    /\ ar_pc = "before_cutpoint"
    /\ results_before_cutpoint' =
          ComputeAbsoluteRisk(split.age_start_before_cutpoint,
                              split.age_interval_length_before_cutpoint,
                              BeforeCutpointParameters, ExpLP(BeforeCutpointParameters))
    /\ ar_pc' = "after_cutpoint"
    /\ UNCHANGED <<ar_args, lambda_vals, competing_vals, exp_lp, split,
                   results_after_cutpoint, ar_results>>

\* lines 379-396
ComputeAfterCutpoint ==
    /\ UNCHANGED <<mvVars, rtVars, ckVars, call_args>>
    /\ random_stream' = EngineDraws(random_stream, ar_args.seed)
    /\ ar_pc = "after_cutpoint"
    /\ results_after_cutpoint' =
          ComputeAbsoluteRisk(split.age_start_after_cutpoint,
                              split.age_interval_length_after_cutpoint,
                              split.after_cutpoint_parameters,
                              ExpLP(split.after_cutpoint_parameters))
    /\ ar_pc' = "combine"
    /\ UNCHANGED <<ar_args, lambda_vals, competing_vals, exp_lp, split,
                   results_before_cutpoint, ar_results>>

\* combined risk = 1 - (1 - risk_before) * (1 - risk_after)
CombinedRisk(risk_before, risk_after) ==
    RSub(ROne, RMul(RSub(ROne, risk_before), RSub(ROne, risk_after)))

\* misc.combine_split_absolute_risk_results
CombineSplitAbsoluteRiskResults(before, after, method_name) ==
    [method |-> method_name,
     model |-> [before_cutpoint |-> before.model, after_cutpoint |-> after.model],
     profile |-> [i \in 1..Len(before.profile) |->
         [age_interval_start |-> before.profile[i].age_interval_start,
          cutpoint |-> before.profile[i].age_interval_end,
          age_interval_end |-> after.profile[i].age_interval_end,
          risk_estimates |-> CombinedRisk(before.profile[i].risk_estimates,
                                          after.profile[i].risk_estimates)]]]

\* lines 398-402
CombineResults ==
    /\ UNCHANGED <<mvVars, rtVars, ckVars, call_args, random_stream>>
    /\ ar_pc = "combine"
    /\ ar_results' = CombineSplitAbsoluteRiskResults(
                         results_before_cutpoint, results_after_cutpoint,
                         "iCARE - absolute risk with split intervals")
    /\ ar_pc' = "done"
    /\ UNCHANGED <<ar_args, lambda_vals, competing_vals, exp_lp, split,
                   results_before_cutpoint, results_after_cutpoint>>

\* a mutant: the two age arguments are passed in each other's place
ComputeWithoutSplit_SwappedAgeArguments ==
    /\ UNCHANGED <<mvVars, rtVars, ckVars, call_args>>
    /\ random_stream' = EngineDraws(random_stream, ar_args.seed)
    /\ ar_pc = "no_split"
    /\ ar_results' = ComputeAbsoluteRisk(ar_args.apply_age_interval_length,
                                         ar_args.apply_age_start,
                                         BeforeCutpointParameters,
                                         ExpLP(BeforeCutpointParameters))
    /\ ar_pc' = "done"
    /\ UNCHANGED <<ar_args, lambda_vals, competing_vals, exp_lp, split,
                   results_before_cutpoint, results_after_cutpoint>>

\* lines 404-421: the call without a split
ComputeWithoutSplit ==
    /\ UNCHANGED <<mvVars, rtVars, ckVars, call_args>>
    /\ random_stream' = EngineDraws(random_stream, ar_args.seed)
    /\ ar_pc = "no_split"
    /\ ar_results' = ComputeAbsoluteRisk(ar_args.apply_age_start,
                                         ar_args.apply_age_interval_length,
                                         BeforeCutpointParameters,
                                         ExpLP(BeforeCutpointParameters))
    /\ ar_pc' = "done"
    /\ UNCHANGED <<ar_args, lambda_vals, competing_vals, exp_lp, split,
                   results_before_cutpoint, results_after_cutpoint>>

\* ---- the inputs of compute_absolute_risk_split_interval ---------------------

\* the ages the rate tables cover
TableAges == 0..(MaxAge - 1)

HazardRates == {<<0, 1>>, <<1, 2>>, <<1, 1>>}
CompetingRates == {<<0, 1>>, <<1, 2>>}
\* competing incidence rates that do not fall with age
CompetingTables ==
    {c \in [TableAges -> CompetingRates] :
        \A t \in TableAges, u \in TableAges : t < u => RLe(c[t], c[u])}
RelativeRisks == {<<1, 2>>, <<1, 1>>, <<2, 1>>}

\* age intervals [start, start + length) that the rate tables cover
AgeIntervals ==
    {iv \in [start : 0..MaxAge, length : 0..MaxAge] : iv.start + iv.length <= MaxAge}

Cutpoints == (0 - 1)..(MaxAge + 1)

DefaultCallArgs ==
    [apply_age_start |-> IntArg(0),
     apply_age_interval_length |-> IntArg(0),
     cutpoint |-> None,
     model_covariate_formula_before_cutpoint_path |-> StrArg("formula_before"),
     model_log_relative_risk_before_cutpoint_path |-> StrArg("log_rr_before"),
     model_reference_dataset_before_cutpoint_path |-> StrArg("reference_before"),
     apply_covariate_profile_before_cutpoint_path |-> StrArg("profile_before"),
     model_reference_dataset_weights_variable_name_before_cutpoint |-> None,
     model_family_history_variable_name_before_cutpoint |-> None,
     model_covariate_formula_after_cutpoint_path |-> None,
     model_log_relative_risk_after_cutpoint_path |-> None,
     model_reference_dataset_after_cutpoint_path |-> None,
     apply_covariate_profile_after_cutpoint_path |-> None,
     model_reference_dataset_weights_variable_name_after_cutpoint |-> None,
     model_family_history_variable_name_after_cutpoint |-> None,
     seed |-> None]

ConstantTable(rate) == [t \in TableAges |-> rate]

\* (1) one individual, scalar arguments, every table of disease incidence rates
\*     and of competing rates, with and without a cut-point;
\* (2) two individuals with one linear predictor, a scalar start age and a list
\*     of interval lengths, the same tables, no cut-point;
\* (3) two individuals, lists of start ages, interval lengths and cut-points,
\*     one rate table;
\* (4) one individual, scalar arguments, an after-cutpoint log relative risk of
\*     its own, with and without a cut-point;
\* (5) one individual, scalar arguments, every combination of after-cutpoint
\*     parameters that are given and that are left None, with and without a
\*     cut-point, with and without a seed
CallInputs ==
    \/ \E iv \in AgeIntervals, cut \in {None} \cup {IntArg(c) : c \in Cutpoints} :
       \E lam \in [TableAges -> HazardRates], comp \in CompetingTables :
       \E rr \in RelativeRisks :
          /\ ar_args = [DefaultCallArgs EXCEPT !.apply_age_start = IntArg(iv.start),
                                               !.apply_age_interval_length = IntArg(iv.length),
                                               !.cutpoint = cut]
          /\ lambda_vals = lam
          /\ competing_vals = comp
          /\ exp_lp = [same |-> <<rr>>, other |-> <<rr>>]
    \/ \E iv1 \in AgeIntervals, iv2 \in AgeIntervals :
       \E lam \in [TableAges -> HazardRates], comp \in CompetingTables :
       \E rr \in RelativeRisks :
          /\ iv1.start = iv2.start
          /\ ar_args = [DefaultCallArgs EXCEPT
                            !.apply_age_start = IntArg(iv1.start),
                            !.apply_age_interval_length = ListArg(<<iv1.length, iv2.length>>)]
          /\ lambda_vals = lam
          /\ competing_vals = comp
          /\ exp_lp = [same |-> <<rr, rr>>, other |-> <<rr, rr>>]
    \/ \E iv1 \in AgeIntervals, iv2 \in AgeIntervals, c1 \in Cutpoints, c2 \in Cutpoints :
          /\ ar_args = [DefaultCallArgs EXCEPT
                            !.apply_age_start = ListArg(<<iv1.start, iv2.start>>),
                            !.apply_age_interval_length = ListArg(<<iv1.length, iv2.length>>),
                            !.cutpoint = ListArg(<<c1, c2>>)]
          /\ lambda_vals = ConstantTable(<<1, 2>>)
          /\ competing_vals = ConstantTable(<<0, 1>>)
          /\ exp_lp = [same |-> <<ROne, ROne>>, other |-> <<ROne, ROne>>]
    \/ \E iv \in AgeIntervals, cut \in {None} \cup {IntArg(c) : c \in Cutpoints} :
       \E rr1 \in RelativeRisks, rr2 \in RelativeRisks :
          /\ ar_args = [DefaultCallArgs EXCEPT
                            !.apply_age_start = IntArg(iv.start),
                            !.apply_age_interval_length = IntArg(iv.length),
                            !.cutpoint = cut,
                            !.model_log_relative_risk_after_cutpoint_path =
                                StrArg("log_rr_after")]
          /\ lambda_vals = ConstantTable(<<1, 2>>)
          /\ competing_vals = ConstantTable(<<0, 1>>)
          /\ exp_lp = [same |-> <<rr1>>, other |-> <<rr2>>]
    \/ \E given \in SUBSET (1..6), cut \in {None, IntArg(1)}, length \in 1..MaxAge :
       \E seed \in Seeds :
          /\ ar_args = [DefaultCallArgs EXCEPT
                            !.apply_age_start = IntArg(0),
                            !.apply_age_interval_length = IntArg(length),
                            !.cutpoint = cut,
                            !.seed = seed,
                            !.model_covariate_formula_after_cutpoint_path =
                                IF 1 \in given THEN StrArg("formula_after") ELSE None,
                            !.model_log_relative_risk_after_cutpoint_path =
                                IF 2 \in given THEN StrArg("log_rr_after") ELSE None,
                            !.model_reference_dataset_after_cutpoint_path =
                                IF 3 \in given THEN StrArg("reference_after") ELSE None,
                            !.apply_covariate_profile_after_cutpoint_path =
                                IF 4 \in given THEN StrArg("profile_after") ELSE None,
                            !.model_reference_dataset_weights_variable_name_after_cutpoint =
                                IF 5 \in given THEN StrArg("weights_after") ELSE None,
                            !.model_family_history_variable_name_after_cutpoint =
                                IF 6 \in given THEN StrArg("family_history_after") ELSE None]
          /\ lambda_vals = ConstantTable(<<1, 2>>)
          /\ competing_vals = ConstantTable(<<0, 1>>)
          /\ exp_lp = [same |-> <<ROne>>, other |-> <<ROne>>]

StartOfCall ==
    /\ split = <<>>
    /\ results_before_cutpoint = <<>>
    /\ results_after_cutpoint = <<>>
    /\ ar_results = <<>>
    /\ ar_pc = "start"

\* no call is running
IdleAbsoluteRisk ==
    /\ ar_args = DefaultCallArgs
    /\ lambda_vals = ConstantTable(RZero)
    /\ competing_vals = ConstantTable(RZero)
    /\ exp_lp = [same |-> <<>>, other |-> <<>>]
    /\ split = <<>>
    /\ results_before_cutpoint = <<>>
    /\ results_after_cutpoint = <<>>
    /\ ar_results = <<>>
    /\ ar_pc = "idle"

(***************************************************************************)
(* check_rates, check_flexible_rate_inputs and format_flexible_rate_inputs *)
(* (icare/check_errors.py).                                                *)
(*                                                                         *)
(* A rate table is a DataFrame with the default index: its column names    *)
(* and its rows in order, row k of the sequence carrying the label k - 1.  *)
(* A table has at least one row, its ages are integers, and a rate cell is *)
(* Rate(q) or NaN.                                                         *)
(*                                                                         *)
(* rate_args     the arguments of check_rates, or the table handed to      *)
(*               format_flexible_rate_inputs                               *)
(* rt_lambda_vals, rt_competing_incidence_rates                            *)
(*               the locals lambda_vals and model_competing_incidence_rates*)
(*               of check_rates once they are normalised                   *)
(* data_formatted  what format_flexible_rate_inputs returned               *)
(* rt_error      the exception that was raised                             *)
(* rt_pc         the statement that runs next; "error" after check_rates   *)
(*               raised, "format_error" after a direct call of             *)
(*               format_flexible_rate_inputs raised                        *)
(*                                                                         *)
(* Where the outcome of a pandas or Python operation depends on the        *)
(* library version (a tuple of positions as a .loc key, the division of a  *)
(* missing value by zero), every outcome is allowed.                       *)
(***************************************************************************)
Table(columns, rows) == [columns |-> columns, rows |-> rows]

ColumnNames(data) == {data.columns[k] : k \in 1..Len(data.columns)}

\* data.index, the labels 0..n-1
IndexLabels(data) == 0..(Len(data.rows) - 1)

\* data.loc[label], for a label of the index
AtLabel(data, label) == data.rows[label + 1]

\* x / n for a cell x and an integer n > 0: a missing value stays missing
FloatDiv(x, n) == IF x.nan THEN NaN ELSE Rate(RDiv(x.rate, RInt(n)))

\* the builtin sum over a list of cells: one missing value makes it missing
RECURSIVE FloatSum(_)
FloatSum(cells) ==
    IF Len(cells) = 0 THEN Rate(RZero)
    ELSE LET rest == FloatSum(Tail(cells))
         IN  IF Head(cells).nan \/ rest.nan THEN NaN
             ELSE Rate(RAdd(Head(cells).rate, rest.rate))

\* x != 0 for a cell x: a missing value differs from every number
FloatNonZero(x) == x.nan \/ x.rate # RZero

\* ---- format_flexible_rate_inputs ----------------------------------------------

\* range(np.min(data["start_age"]), np.min(data["end_age"]))
integer_ages(data) ==
    Range(SeqMin(Column(data.rows, "start_age")), SeqMin(Column(data.rows, "end_age")))

\* pd.DataFrame(columns=["age", "rate"], index=...) with the age column filled
EmptyFormatted(data) ==
    Table(<<"age", "rate">>,
          [k \in 1..Len(integer_ages(data)) |-> [age |-> integer_ages(data)[k], rate |-> NaN]])

\* idxs: the positions of the ages within [start_age, end_age] of row i
idxs(formatted, row) ==
    {k \in 1..Len(formatted.rows) :
        /\ formatted.rows[k].age >= row.start_age
        /\ formatted.rows[k].age <= row.end_age}

\* the loop over the rows i, i + 1, ... of data: the cell of data_formatted
\* with the label i, divided by the number of ages of the interval, is
\* written to the ages of the interval (when every row can be processed)
RECURSIVE FormatLoop(_, _, _)
FormatLoop(data, formatted, i) ==
    IF i >= Len(data.rows) THEN formatted
    ELSE LET positions == idxs(formatted, AtLabel(data, i))
             count == Cardinality(positions)
             value == IF count = 0 THEN NaN
                      ELSE FloatDiv(AtLabel(formatted, i).rate, count)
         IN  FormatLoop(data,
                        Table(formatted.columns,
                              [k \in 1..Len(formatted.rows) |->
                                  IF k \in positions
                                  THEN [formatted.rows[k] EXCEPT !.rate = value]
                                  ELSE formatted.rows[k]]),
                        i + 1)

\* data_formatted.loc[i, "rate"] raises a KeyError for a row i of data whose
\* label is no label of data_formatted
MissingLabel(data) ==
    \E i \in IndexLabels(data) : i \notin IndexLabels(EmptyFormatted(data))

\* the exceptions format_flexible_rate_inputs may raise for a table of three
\* columns: a KeyError (a missing label, or the tuple idxs as a .loc key) and,
\* for an interval that holds none of the ages, a ZeroDivisionError
FormatErrors(data) ==
    IF Len(data.columns) # 3 THEN {}
    ELSE {"KeyError"} \cup
         (IF \E i \in IndexLabels(data) :
                /\ i \in IndexLabels(EmptyFormatted(data))
                /\ idxs(EmptyFormatted(data), AtLabel(data, i)) = {}
          THEN {"ZeroDivisionError"} ELSE {})

\* format_flexible_rate_inputs may return
FormatReturns(data) == IF Len(data.columns) = 3 THEN ~MissingLabel(data) ELSE TRUE

\* what format_flexible_rate_inputs returns, when it returns
FormatFlexibleRateInputs(data) ==
    IF Len(data.columns) = 3 THEN FormatLoop(data, EmptyFormatted(data), 0) ELSE data

\* ---- check_flexible_rate_inputs -----------------------------------------------

ErrorColumns == "ValueError: 2 or 3 columns"
ErrorAgeRateColumns == "ValueError: columns ['age', 'rate']"
ErrorIntervalColumns == "ValueError: columns ['start_age', 'end_age', 'rate']"
ErrorSequential == "ValueError: must cover sequential age intervals"
ErrorProbabilities == "ValueError: rates should be probabilities between 0 and 1"

\* data.loc[1:, "start_age"] - data.loc[:data.shape[0]-1, "end_age"]: both
\* slices include their last label, the difference is taken label by label
\* and is missing at a label that only one of the slices has
AlignedDifference(data) ==
    LET n == Len(data.rows)
        left == {j \in IndexLabels(data) : j >= 1}
        right == {j \in IndexLabels(data) : j <= n - 1}
    IN  [k \in 1..n |->
            IF (k - 1) \in left /\ (k - 1) \in right
            THEN Rate(RInt(AtLabel(data, k - 1).start_age - AtLabel(data, k - 1).end_age))
            ELSE NaN]

NotSequential(data) ==
    Len(data.rows) > 1 /\ FloatNonZero(FloatSum(AlignedDifference(data)))

\* a mutant: only rates above 1 are counted
RatesOutsideUnitInterval_OnlyAbove(data) ==
    Cardinality({k \in 1..Len(data.rows) :
        ~data.rows[k].rate.nan /\ RLt(ROne, data.rows[k].rate.rate)}) > 0

\* (sum(data["rate"] < 0.0) + sum(data["rate"] > 1.0)) > 0
RatesOutsideUnitInterval(data) ==
    Cardinality({k \in 1..Len(data.rows) :
        ~data.rows[k].rate.nan /\ RLt(data.rows[k].rate.rate, RZero)})
    + Cardinality({k \in 1..Len(data.rows) :
        ~data.rows[k].rate.nan /\ RLt(ROne, data.rows[k].rate.rate)}) > 0

\* the ValueError check_flexible_rate_inputs raises itself, None when no
\* check fails
CheckError(data) ==
    IF Len(data.columns) # 2 /\ Len(data.columns) # 3 THEN StrArg(ErrorColumns)
    ELSE IF /\ Len(data.columns) = 2
            /\ ("age" \notin ColumnNames(data) \/ "rate" \notin ColumnNames(data))
    THEN StrArg(ErrorAgeRateColumns)
    ELSE IF /\ Len(data.columns) = 3
            /\ \/ "start_age" \notin ColumnNames(data)
               \/ "end_age" \notin ColumnNames(data)
               \/ "rate" \notin ColumnNames(data)
    THEN StrArg(ErrorIntervalColumns)
    ELSE IF Len(data.columns) = 3 /\ NotSequential(data) THEN StrArg(ErrorSequential)
    ELSE IF RatesOutsideUnitInterval(data) THEN StrArg(ErrorProbabilities)
    ELSE None

\* the exceptions check_flexible_rate_inputs may raise
CheckFlexibleRateErrors(data) ==
    IF CheckError(data) # None THEN {CheckError(data).v} ELSE FormatErrors(data)

\* check_flexible_rate_inputs may return (format_flexible_rate_inputs(data))
CheckFlexibleRateReturns(data) == CheckError(data) = None /\ FormatReturns(data)

\* ---- check_rates --------------------------------------------------------------

ErrorDiseaseCoverage == "ValueError: 'model_disease_incidence_rates' must have rates for each age"
ErrorCompetingCoverage == "ValueError: 'model_competing_incidence_rates' must have rates for each age"

\* line 85
CheckDiseaseRates ==
    /\ UNCHANGED <<mvVars, arVars, ckVars, call_args, random_stream>>
    /\ rt_pc = "check_rates"
    /\ \/ /\ CheckFlexibleRateReturns(rate_args.model_disease_incidence_rates)
          /\ rt_lambda_vals' =
                FormatFlexibleRateInputs(rate_args.model_disease_incidence_rates)
          /\ rt_pc' = "competing_incidence_rates"
          /\ UNCHANGED rt_error
       \/ /\ \E e \in CheckFlexibleRateErrors(rate_args.model_disease_incidence_rates) :
                rt_error' = StrArg(e)
          /\ rt_pc' = "error"
          /\ UNCHANGED rt_lambda_vals
    /\ UNCHANGED <<rate_args, rt_competing_incidence_rates, data_formatted>>

\* a table of the ages of lambda_vals with the rate 0
ZeroCompetingRates(lambda_vals_table) ==
    Table(<<"age", "rate">>,
          [k \in 1..Len(lambda_vals_table.rows) |->
              [age |-> lambda_vals_table.rows[k].age, rate |-> Rate(RZero)]])

\* lines 87-93
CheckCompetingRates ==
    /\ UNCHANGED <<mvVars, arVars, ckVars, call_args, random_stream>>
    /\ rt_pc = "competing_incidence_rates"
    /\ LET model_competing_incidence_rates ==
               IF rate_args.model_competing_incidence_rates = None
               THEN ZeroCompetingRates(rt_lambda_vals)
               ELSE rate_args.model_competing_incidence_rates
       IN  \/ /\ CheckFlexibleRateReturns(model_competing_incidence_rates)
              /\ rt_competing_incidence_rates' =
                    FormatFlexibleRateInputs(model_competing_incidence_rates)
              /\ rt_pc' = "coverage"
              /\ UNCHANGED rt_error
           \/ /\ \E e \in CheckFlexibleRateErrors(model_competing_incidence_rates) :
                    rt_error' = StrArg(e)
              /\ rt_pc' = "error"
              /\ UNCHANGED rt_competing_incidence_rates
    /\ UNCHANGED <<rate_args, rt_lambda_vals, data_formatted>>

\* range(np.min(apply_age_start), np.max(apply_age_start + apply_age_interval_length)),
\* the two arguments being arrays of one length
PredictionAges(apply_age_start, apply_age_interval_length) ==
    Range(SeqMin(apply_age_start),
          SeqMax([k \in 1..Len(apply_age_start) |->
                     apply_age_start[k] + apply_age_interval_length[k]]))

\* x in series: the operator in of a Series looks x up among the labels of
\* its index
InSeries(x, data) == x \in IndexLabels(data)

\* sum([x not in table["age"] for x in range(...)]) > 0
AgesNotCovered(data, apply_age_start, apply_age_interval_length) ==
    LET ages == PredictionAges(apply_age_start, apply_age_interval_length)
    IN  Cardinality({k \in 1..Len(ages) : ~InSeries(ages[k], data)}) > 0

\* lines 95-109
CheckCoverage ==
    /\ UNCHANGED <<mvVars, arVars, ckVars, call_args, random_stream>>
    /\ rt_pc = "coverage"
    /\ IF AgesNotCovered(rt_lambda_vals, rate_args.apply_age_start,
                         rate_args.apply_age_interval_length)
       THEN rt_error' = StrArg(ErrorDiseaseCoverage) /\ rt_pc' = "error"
       ELSE IF AgesNotCovered(rt_competing_incidence_rates, rate_args.apply_age_start,
                              rate_args.apply_age_interval_length)
       THEN rt_error' = StrArg(ErrorCompetingCoverage) /\ rt_pc' = "error"
       ELSE rt_pc' = "done" /\ UNCHANGED rt_error
    /\ UNCHANGED <<rate_args, rt_lambda_vals, rt_competing_incidence_rates, data_formatted>>

\* a call of format_flexible_rate_inputs on the table of rate_args
FormatRates ==
    /\ UNCHANGED <<mvVars, arVars, ckVars, call_args, random_stream>>
    /\ rt_pc = "format_flexible_rate_inputs"
    /\ \/ /\ FormatReturns(rate_args.model_disease_incidence_rates)
          /\ data_formatted' =
                FormatFlexibleRateInputs(rate_args.model_disease_incidence_rates)
          /\ rt_pc' = "formatted"
          /\ UNCHANGED rt_error
       \/ /\ \E e \in FormatErrors(rate_args.model_disease_incidence_rates) :
                rt_error' = StrArg(e)
          /\ rt_pc' = "format_error"
          /\ UNCHANGED data_formatted
    /\ UNCHANGED <<rate_args, rt_lambda_vals, rt_competing_incidence_rates>>

\* the rates of the tables: two outside [0, 1], the two ends and one inside
RateValues == {<<-1, 2>>, <<0, 1>>, <<1, 2>>, <<1, 1>>, <<3, 2>>}

\* a table of the columns age and rate with the rate r at each age of a..b
AgeRateTable(a, b, r) ==
    Table(<<"age", "rate">>, [k \in 1..(b - a + 1) |-> [age |-> a + k - 1, rate |-> Rate(r)]])

\* an interval row of a table of three columns
IntervalRow(a, b, r) == [start_age |-> a, end_age |-> b, rate |-> Rate(r)]

IntervalTable(rows) == Table(<<"start_age", "end_age", "rate">>, rows)

\* the interval tables of one row, and of two rows the second of which starts
\* after the first one starts
IntervalTables ==
    {IntervalTable(<<IntervalRow(a, b, r)>>) :
        a \in 0..MaxAge, b \in 0..MaxAge, r \in RateValues}
    \cup {IntervalTable(<<IntervalRow(a, b, r), IntervalRow(c, d, r)>>) :
            a \in 0..MaxAge, b \in 0..MaxAge, c \in 0..MaxAge, d \in 0..MaxAge,
            r \in {<<1, 2>>, <<3, 2>>}}

\* start_age <= end_age in every row and no row starts before its predecessor ends
WellFormedIntervals(data) ==
    /\ \A k \in 1..Len(data.rows) : data.rows[k].start_age <= data.rows[k].end_age
    /\ \A k \in 1..(Len(data.rows) - 1) : data.rows[k].end_age < data.rows[k + 1].start_age

\* tables whose columns are not those of a rate table
MisnamedTables ==
    {Table(<<"age", "value">>, <<[age |-> 0, value |-> Rate(<<1, 2>>)]>>),
     Table(<<"start_age", "stop_age", "rate">>,
           <<[start_age |-> 0, stop_age |-> 1, rate |-> Rate(<<1, 2>>)]>>),
     Table(<<"age">>, <<[age |-> 0]>>),
     Table(<<"start_age", "end_age", "rate", "note">>,
           <<[start_age |-> 0, end_age |-> 1, rate |-> Rate(<<3, 2>>), note |-> 0]>>)}

RateArgs(disease, competing, starts, lengths) ==
    [model_disease_incidence_rates |-> disease,
     model_competing_incidence_rates |-> competing,
     apply_age_start |-> starts,
     apply_age_interval_length |-> lengths]

DefaultRateArgs == RateArgs(AgeRateTable(0, 0, RZero), None, <<>>, <<>>)

\* the calls of check_rates: tables of two columns for one individual and,
\* with accepted rates, for two; tables of three columns and misnamed tables
\* for one individual; and the calls of format_flexible_rate_inputs on a
\* well-formed table of three columns whose rates are probabilities
RateInputs ==
    \/ \E a \in 0..MaxAge, r \in RateValues, cr \in RateValues :
       \E b \in a..MaxAge, cb \in 0..MaxAge, s \in 0..MaxAge :
       \E l \in 0..(MaxAge + 1 - s) :
       \E competing \in {None, AgeRateTable(0, cb, cr)} :
          /\ rate_args = RateArgs(AgeRateTable(a, b, r), competing, <<s>>, <<l>>)
          /\ rt_pc = "check_rates"
    \/ \E a \in 0..1, b \in 1..MaxAge, s1 \in 0..MaxAge, s2 \in 0..MaxAge :
       \E l1 \in 0..(MaxAge + 1 - s1), l2 \in 0..(MaxAge + 1 - s2) :
          /\ a <= b
          /\ rate_args = RateArgs(AgeRateTable(a, b, <<1, 2>>), None, <<s1, s2>>, <<l1, l2>>)
          /\ rt_pc = "check_rates"
    \/ \E data \in IntervalTables \cup MisnamedTables, s \in 0..MaxAge :
       \E l \in 0..Min(1, MaxAge - s) :
          /\ rate_args = RateArgs(data, None, <<s>>, <<l>>)
          /\ rt_pc = "check_rates"
    \/ \E data \in IntervalTables :
          /\ WellFormedIntervals(data)
          /\ ~RatesOutsideUnitInterval(data)
          /\ rate_args = RateArgs(data, None, <<>>, <<>>)
          /\ rt_pc = "format_flexible_rate_inputs"

\* nothing is normalised yet
StartOfRates ==
    /\ rt_lambda_vals = None
    /\ rt_competing_incidence_rates = None
    /\ data_formatted = None
    /\ rt_error = None

\* no rate table is being checked
IdleRates ==
    /\ rate_args = DefaultRateArgs
    /\ StartOfRates
    /\ rt_pc = "idle"

(***************************************************************************)
(* check_age_lengths, check_age_intervals and check_family_history         *)
(* (icare/check_errors.py), each called once.                              *)
(*                                                                         *)
(* A Python value is a record with its type as kind; the elements of a     *)
(* list given to check_age_intervals are such records too, so that a list  *)
(* can hold what is not an integer. A numpy array is a sequence of         *)
(* numbers, each Number(n) or NaN. A dataset is a function from its column *)
(* labels to its columns, a column a sequence of Rate(q) and NaN.          *)
(*                                                                         *)
(* ck_args    the function called (ck_pc names it) and its arguments       *)
(* ck_result  None until the call is over, then Returned(value) or         *)
(*            Raised(message)                                              *)
(***************************************************************************)
FloatArg(q) == [kind |-> "float", v |-> q]
ArrayArg(a) == [kind |-> "array", v |-> a]
Number(n) == [nan |-> FALSE, value |-> n]

Returned(value) == [raised |-> FALSE, value |-> value]
Raised(message) == [raised |-> TRUE, error |-> "ValueError", message |-> message]

IsInstance(x, type) == x.kind = type

\* ---- check_age_lengths ----------------------------------------------------

ErrorSameLength ==
    "ERROR: 'apply_age_start and 'apply_age_interval_length' must have the same length."
ErrorRowsMatch == "ERROR: 'apply_age_start' and number of rows in 'match_name' must match."
ErrorMissingValues ==
    "ERROR: 'apply_age_start' and 'apply_age_interval_length' must not contain missing values."
ErrorPositiveValues ==
    "ERROR: 'apply_age_start' and 'apply_age_interval_length' must contain positive values."

\* np.full((rows,), value)
Full(rows, value) == [i \in 1..rows |-> Number(value)]

\* sum(np.isnan(a))
SumIsNaN(a) == Cardinality({i \in 1..Len(a) : a[i].nan})

\* a mutant: zero counts as a negative value
SumNegative_OrZero(a) == Cardinality({i \in 1..Len(a) : ~a[i].nan /\ a[i].value <= 0})

\* sum(a < 0); NaN < 0 is False
SumNegative(a) == Cardinality({i \in 1..Len(a) : ~a[i].nan /\ a[i].value < 0})

check_age_lengths(apply_age_start, apply_age_interval_length, rows) ==
    LET start == IF IsInstance(apply_age_start, "int")
                 THEN Full(rows, apply_age_start.v) ELSE apply_age_start.v
        length == IF IsInstance(apply_age_interval_length, "int")
                  THEN Full(rows, apply_age_interval_length.v)
                  ELSE apply_age_interval_length.v
    IN  IF Len(start) # Len(length) THEN Raised(ErrorSameLength)
        ELSE IF Len(start) # rows THEN Raised(ErrorRowsMatch)
        ELSE IF SumIsNaN(start) + SumIsNaN(length) > 0 THEN Raised(ErrorMissingValues)
        ELSE IF SumNegative(start) + SumNegative(length) > 0 THEN Raised(ErrorPositiveValues)
        ELSE Returned(<<start, length>>)

CheckAgeLengths ==
    /\ UNCHANGED <<mvVars, arVars, rtVars, call_args, random_stream>>
    /\ ck_pc = "check_age_lengths"
    /\ ck_result' = check_age_lengths(ck_args.apply_age_start,
                                      ck_args.apply_age_interval_length,
                                      ck_args.match_rows)
    /\ ck_pc' = "done"
    /\ UNCHANGED ck_args

\* ---- check_age_intervals --------------------------------------------------

ErrorAgeStartType ==
    "ERROR: The argument 'apply_age_start' must be an integer or a list of integers."
ErrorIntervalLengthType ==
    "ERROR: The argument 'apply_age_interval_length' must be an integer or a list of integers."

\* any([not isinstance(x, int) for x in l])
AnyNotInt(l) == \E k \in 1..Len(l) : ~IsInstance(l[k], "int")

check_age_intervals(apply_age_start, apply_age_interval_length) ==
    IF ~IsInstance(apply_age_start, "int") \/ ~IsInstance(apply_age_start, "list")
    THEN Raised(ErrorAgeStartType)
    ELSE IF \/ ~IsInstance(apply_age_interval_length, "int")
            \/ ~IsInstance(apply_age_interval_length, "list")
    THEN Raised(ErrorIntervalLengthType)
    ELSE IF IsInstance(apply_age_start, "list") /\ AnyNotInt(apply_age_start.v)
    THEN Raised(ErrorAgeStartType)
    ELSE IF /\ IsInstance(apply_age_interval_length, "list")
            /\ AnyNotInt(apply_age_interval_length.v)
    THEN Raised(ErrorIntervalLengthType)
    ELSE Returned(None)

CheckAgeIntervals ==
    /\ UNCHANGED <<mvVars, arVars, rtVars, call_args, random_stream>>
    /\ ck_pc = "check_age_intervals"
    /\ ck_result' = check_age_intervals(ck_args.apply_age_start,
                                        ck_args.apply_age_interval_length)
    /\ ck_pc' = "done"
    /\ UNCHANGED ck_args

\* ---- check_family_history -------------------------------------------------

ErrorFamilyHistoryType ==
    "ERROR: The argument 'model_family_history_variable_name' must be a string."
ErrorFamilyHistoryReferenceColumn ==
    "ERROR: The 'model_family_history_variable_name' input must be a column in the 'model_reference_dataset' input."
ErrorFamilyHistoryProfileColumn ==
    "ERROR: The 'model_family_history_variable_name' input must be a column in the 'apply_covariate_profile' input."
ErrorFamilyHistoryReferenceBinary ==
    "ERROR: Family history variable ('model_family_history_variable_name') in the 'model_reference_dataset' input must be a binary variable."
ErrorFamilyHistoryProfileBinary ==
    "ERROR: Family history variable ('model_family_history_variable_name') in the 'apply_covariate_profile' input must be a binary variable."

\* column.dropna().unique()
DropnaUnique(column) == {column[k].rate : k \in {j \in 1..Len(column) : ~column[j].nan}}

\* astype(int) of one value: the fraction is cut off
AsTypeInt(q) == IF q[1] >= 0 THEN q[1] \div q[2] ELSE 0 - ((0 - q[1]) \div q[2])

\* unique.shape[0] != 2 or any([x not in unique for x in [0, 1]]), of the
\* unique values cast to int
NotBinary(column) ==
    LET unique == DropnaUnique(column)
    IN  \/ Cardinality(unique) # 2
        \/ \E x \in {0, 1} : x \notin {AsTypeInt(q) : q \in unique}

check_family_history(model_family_history_variable_name, model_reference_dataset, apply_covariate_profile) ==
    IF IsInstance(model_family_history_variable_name, "str")
    THEN Raised(ErrorFamilyHistoryType)
    ELSE IF model_family_history_variable_name \notin DOMAIN model_reference_dataset
    THEN Raised(ErrorFamilyHistoryReferenceColumn)
    ELSE IF model_family_history_variable_name \notin DOMAIN apply_covariate_profile
    THEN Raised(ErrorFamilyHistoryProfileColumn)
    ELSE IF NotBinary(model_reference_dataset[model_family_history_variable_name])
    THEN Raised(ErrorFamilyHistoryReferenceBinary)
    ELSE IF NotBinary(apply_covariate_profile[model_family_history_variable_name])
    THEN Raised(ErrorFamilyHistoryProfileBinary)
    ELSE Returned(None)

CheckFamilyHistory ==
    /\ UNCHANGED <<mvVars, arVars, rtVars, call_args, random_stream>>
    /\ ck_pc = "check_family_history"
    /\ ck_result' = check_family_history(ck_args.model_family_history_variable_name,
                                         ck_args.model_reference_dataset,
                                         ck_args.apply_covariate_profile)
    /\ ck_pc' = "done"
    /\ UNCHANGED ck_args

\* ---- the inputs of the three checks -----------------------------------------

\* arrays of up to two ages, an age negative, zero, positive or missing
AgeNumbers == {Number(0 - 1), Number(0), Number(1), NaN}
AgeArrays == {<<>>} \cup {<<x>> : x \in AgeNumbers}
                    \cup {<<x, y>> : x \in AgeNumbers, y \in AgeNumbers}
AgeLengthArguments == {IntArg(n) : n \in (0 - 1)..1} \cup {ArrayArg(a) : a \in AgeArrays}
ProfileRowCounts == 0..2

\* what a caller may pass for an age argument: nothing, a string, a float, an
\* integer, and lists of integers and of other values
AgeIntervalArguments ==
    {None, StrArg("40"), FloatArg(<<1, 2>>), IntArg(0), IntArg(1),
     ListArg(<<>>), ListArg(<<IntArg(0), IntArg(1)>>),
     ListArg(<<IntArg(0), FloatArg(<<1, 2>>)>>), ListArg(<<StrArg("40")>>)}

\* columns of a family history variable: binary, binary with a missing value,
\* constant, with a third value, and with a value that is no integer
FamilyHistoryColumns ==
    {<<Rate(RZero), Rate(ROne)>>,
     <<Rate(ROne), NaN, Rate(RZero)>>,
     <<Rate(RZero), Rate(RZero)>>,
     <<Rate(RZero), Rate(RInt(2))>>,
     <<Rate(RZero), Rate(ROne), Rate(RInt(2))>>,
     <<Rate(<<1, 2>>), Rate(ROne)>>}

\* a dataset read from a file has strings as its column labels; one built in
\* memory may have an integer as a label
FamilyHistoryLabels == {StrArg("family_history"), StrArg("parity"), IntArg(0)}
FamilyHistoryNames == FamilyHistoryLabels \cup {None}

Dataset(label, column) == [l \in {label} |-> column]

CheckInputs ==
    \/ \E start \in AgeLengthArguments, length \in AgeLengthArguments :
       \E rows \in ProfileRowCounts :
          /\ ck_args = [apply_age_start |-> start,
                        apply_age_interval_length |-> length,
                        match_rows |-> rows]
          /\ ck_pc = "check_age_lengths"
    \/ \E start \in AgeIntervalArguments, length \in AgeIntervalArguments :
          /\ ck_args = [apply_age_start |-> start, apply_age_interval_length |-> length]
          /\ ck_pc = "check_age_intervals"
    \/ \E name \in FamilyHistoryNames :
       \E reference_label \in FamilyHistoryLabels, profile_label \in FamilyHistoryLabels :
       \E reference \in FamilyHistoryColumns, profile \in FamilyHistoryColumns :
          /\ ck_args = [model_family_history_variable_name |-> name,
                        model_reference_dataset |-> Dataset(reference_label, reference),
                        apply_covariate_profile |-> Dataset(profile_label, profile)]
          /\ ck_pc = "check_family_history"

\* no check is running
IdleChecks ==
    /\ ck_args = None
    /\ ck_result = None
    /\ ck_pc = "idle"

(***************************************************************************)
(* The specifications: one construction of ModelValidation, one call of    *)
(* validate_absolute_risk_model or one construction of ModelValidation     *)
(* with scores and reference inputs, one call of                           *)
(* compute_absolute_risk_split_interval, one call of check_rates or of     *)
(* format_flexible_rate_inputs, and one call of check_age_lengths, of      *)
(* check_age_intervals or of check_family_history.                         *)
(***************************************************************************)
InitValidation ==
    /\ ValidationInputs
    /\ StartOfValidation
    /\ call_args = None
    /\ IdleAbsoluteRisk
    /\ IdleRates
    /\ IdleChecks
    /\ random_stream = UnseededStream

NextValidation ==
    \/ SetStudyData
    \/ SetPredictedTimeInterval
    \/ CalculateFollowupPeriod
    \/ CalculateRisks
    \/ CalculateReferenceRisks
    \/ CalculateStudyIncidenceRates

SpecValidation == InitValidation /\ [][NextValidation]_vars

InitAbsoluteRisk ==
    /\ CallInputs
    /\ StartOfCall
    /\ IdleValidation
    /\ call_args = None
    /\ IdleRates
    /\ IdleChecks
    /\ random_stream = UnseededStream

NextAbsoluteRisk ==
    \/ StartSplitInterval
    \/ ComputeBeforeCutpoint
    \/ ComputeAfterCutpoint
    \/ CombineResults
    \/ ComputeWithoutSplit

SpecAbsoluteRisk == InitAbsoluteRisk /\ [][NextAbsoluteRisk]_vars

InitValidateAbsoluteRiskModel ==
    /\ \/ ValidateInputs /\ StartOfValidateCall
       \/ ScoredValidationInputs /\ StartOfValidation /\ call_args = None
    /\ IdleAbsoluteRisk
    /\ IdleRates
    /\ IdleChecks
    /\ random_stream = UnseededStream

NextValidateAbsoluteRiskModel ==
    \/ ValidateAbsoluteRiskModel
    \/ SetStudyData
    \/ SetPredictedTimeInterval
    \/ CalculateFollowupPeriod
    \/ CalculateRisks
    \/ CalculateReferenceRisks
    \/ CalculateStudyIncidenceRates

SpecValidateAbsoluteRiskModel ==
    InitValidateAbsoluteRiskModel /\ [][NextValidateAbsoluteRiskModel]_vars

InitRates ==
    /\ RateInputs
    /\ StartOfRates
    /\ IdleValidation
    /\ call_args = None
    /\ IdleAbsoluteRisk
    /\ IdleChecks
    /\ random_stream = UnseededStream

NextRates ==
    \/ CheckDiseaseRates
    \/ CheckCompetingRates
    \/ CheckCoverage
    \/ FormatRates

SpecRates == InitRates /\ [][NextRates]_vars

InitChecks ==
    /\ CheckInputs
    /\ ck_result = None
    /\ IdleValidation
    /\ call_args = None
    /\ IdleAbsoluteRisk
    /\ IdleRates
    /\ random_stream = UnseededStream

NextChecks ==
    \/ CheckAgeLengths
    \/ CheckAgeIntervals
    \/ CheckFamilyHistory

SpecChecks == InitChecks /\ [][NextChecks]_vars

Init ==
    \/ InitValidation
    \/ InitValidateAbsoluteRiskModel
    \/ InitAbsoluteRisk
    \/ InitRates
    \/ InitChecks

Next == NextValidateAbsoluteRiskModel \/ NextAbsoluteRisk \/ NextRates \/ NextChecks

Spec == Init /\ [][Next]_vars

(***************************************************************************)
(* Properties of compute_absolute_risk_split_interval and of the per-age   *)
(* loop, under SpecAbsoluteRisk.                                           *)
(***************************************************************************)
ProfileRows == 1..Len(exp_lp.same)
Starts == Broadcast(ar_args.apply_age_start, Len(exp_lp.same))
Lengths == Broadcast(ar_args.apply_age_interval_length, Len(exp_lp.same))
CutAges == Broadcast(ar_args.cutpoint, Len(exp_lp.same))

\* the split path has derived its sub-intervals
SplitTaken ==
    /\ ar_pc \in {"before_cutpoint", "after_cutpoint", "combine", "done"}
    /\ run_split_interval

BeforeStarts == Broadcast(split.age_start_before_cutpoint, Len(exp_lp.same))
BeforeLengths == Broadcast(split.age_interval_length_before_cutpoint, Len(exp_lp.same))
AfterStarts == Broadcast(split.age_start_after_cutpoint, Len(exp_lp.same))
AfterLengths == Broadcast(split.age_interval_length_after_cutpoint, Len(exp_lp.same))

\* the results of the per-age loop that exist in this state
LoopResults ==
    (IF ar_pc \in {"after_cutpoint", "combine", "done"} /\ run_split_interval
     THEN {results_before_cutpoint} ELSE {})
    \cup (IF ar_pc \in {"combine", "done"} /\ run_split_interval
          THEN {results_after_cutpoint} ELSE {})
    \cup (IF ar_pc = "done" /\ ~run_split_interval THEN {ar_results} ELSE {})

\* C1: every absolute risk the per-age loop produces lies in [0, 1], for every
\* hazard table and competing-hazard table with rates in [0, 1] and every
\* linear predictor.
C1_RiskInUnitInterval ==
    \A res \in LoopResults : \A i \in 1..Len(res.profile) :
        /\ RLe(RZero, res.profile[i].risk_estimates)
        /\ RLe(res.profile[i].risk_estimates, ROne)

\* C2: in the split path, in the scalar and in the list branch, the before
\* sub-interval starts at the start age, the after sub-interval starts where
\* the before one ends, and the two lengths add up to the interval length.
C2_SubIntervalsPartition ==
    SplitTaken =>
        /\ Len(BeforeStarts) = Len(exp_lp.same)
        /\ Len(BeforeLengths) = Len(exp_lp.same)
        /\ Len(AfterStarts) = Len(exp_lp.same)
        /\ Len(AfterLengths) = Len(exp_lp.same)
        /\ \A i \in ProfileRows :
              /\ BeforeStarts[i] = Starts[i]
              /\ AfterStarts[i] = Starts[i] + BeforeLengths[i]
              /\ BeforeLengths[i] + AfterLengths[i] = Lengths[i]

\* the list branch has split two intervals: one by a cut-point strictly inside
\* it, one by a cut-point outside it
C2_Witness ==
    /\ SplitTaken
    /\ ar_args.cutpoint.kind = "list"
    /\ \E i \in ProfileRows :
          /\ Starts[i] > 0
          /\ BeforeLengths[i] > 0
          /\ AfterLengths[i] > 0
    /\ \E i \in ProfileRows : CutAges[i] > Starts[i] + Lengths[i] /\ Lengths[i] > 0

Clamp(x, lo, hi) == IF x < lo THEN lo ELSE IF x > hi THEN hi ELSE x

\* C3: the before-cutpoint length is clamp(min(C - s, L), 0, L) in both
\* branches; both lengths lie in [0, L]; a cut-point at or before the start
\* leaves the whole interval to the after sub-interval, a cut-point at or after
\* the end leaves it to the before sub-interval.
C3_BeforeLengthIsClamped ==
    SplitTaken =>
        \A i \in ProfileRows :
            /\ BeforeLengths[i] =
                  Clamp(Min(CutAges[i] - Starts[i], Lengths[i]), 0, Lengths[i])
            /\ BeforeLengths[i] \in 0..Lengths[i]
            /\ AfterLengths[i] \in 0..Lengths[i]
            /\ CutAges[i] <= Starts[i] =>
                  /\ BeforeLengths[i] = 0
                  /\ AfterStarts[i] = Starts[i]
                  /\ AfterLengths[i] = Lengths[i]
            /\ CutAges[i] >= Starts[i] + Lengths[i] =>
                  /\ AfterLengths[i] = 0
                  /\ BeforeLengths[i] = Lengths[i]

\* the list branch has met a cut-point before the start of an interval and a
\* cut-point after the end of one
C3_Witness ==
    /\ SplitTaken
    /\ ar_args.cutpoint.kind = "list"
    /\ \E i \in ProfileRows : CutAges[i] < Starts[i] /\ Lengths[i] > 0
    /\ \E i \in ProfileRows : CutAges[i] > Starts[i] + Lengths[i] /\ Lengths[i] > 0

\* the parameters of the two runs are identical
IdenticalParameters == split.after_cutpoint_parameters = BeforeCutpointParameters

\* the risk of one run of the engine over the whole interval of row i
WholeIntervalRisk(i) ==
    AbsoluteRisk(Starts[i], Lengths[i], exp_lp.same[i], lambda_vals, competing_vals)

SplitDone == ar_pc = "done" /\ run_split_interval

NoCompetingBeforeCut(i) ==
    \A t \in BeforeStarts[i]..(AfterStarts[i] - 1) :
        /\ competing_vals[t] = RZero
        /\ RLe(CauseHazard(lambda_vals[t], exp_lp.same[i]), ROne)

\* the survival probability the before-cutpoint run of row i ends with
SurvivalAtCutpoint(i) ==
    AgeLoop(BeforeStarts[i], AfterStarts[i], ROne, RZero, exp_lp.same[i],
            lambda_vals, competing_vals).S

WithoutSplitDone == ar_pc = "done" /\ ~run_split_interval

\* C5: with the start age, the linear predictor and the rate tables fixed, the
\* absolute risk does not decrease when the interval gets one year longer, and
\* the risk over an interval of length 0 is 0.
C5_RiskMonotoneInLength ==
    WithoutSplitDone =>
        /\ \A i \in ProfileRows, j \in ProfileRows :
              (/\ Starts[i] = Starts[j]
               /\ exp_lp.same[i] = exp_lp.same[j]
               /\ Lengths[j] = Lengths[i] + 1) =>
                  RLe(ar_results.profile[i].risk_estimates,
                      ar_results.profile[j].risk_estimates)
        /\ \A i \in ProfileRows :
              Lengths[i] = 0 => ar_results.profile[i].risk_estimates = RZero

\* two rows that differ by one year of interval, the longer with the larger
\* risk, where the last year's total hazard is clipped
C5_Witness ==
    /\ WithoutSplitDone
    /\ \E i \in ProfileRows, j \in ProfileRows :
          /\ Starts[i] = Starts[j]
          /\ Lengths[i] > 0
          /\ Lengths[j] = Lengths[i] + 1
          /\ RLt(ar_results.profile[i].risk_estimates,
                 ar_results.profile[j].risk_estimates)
          /\ RLt(ROne, RAdd(CauseHazard(lambda_vals[Starts[j] + Lengths[i]], exp_lp.same[j]),
                            competing_vals[Starts[j] + Lengths[i]]))


(***************************************************************************)
(* Properties of ModelValidation, under SpecValidation.                    *)
(***************************************************************************)
Records == 1..Len(study_data)

\* study_data has the column: the statement that adds it has run
HasColumn(name) == Len(study_data) > 0 /\ name \in DOMAIN study_data[1]

\* the row of the study file record i was loaded from
Loaded(i) == study_file.rows[i]

\* exit age - entry age of the loaded row
LoadedFollowup(i) == Loaded(i).study_exit_age - Loaded(i).study_entry_age

\* the predicted risk interval P of record i, from the argument
RequestedInterval(i) ==
    IF args.predicted_risk_interval.kind = "str" THEN LoadedFollowup(i)
    ELSE IF args.predicted_risk_interval.kind = "int" THEN args.predicted_risk_interval.v
    ELSE args.predicted_risk_interval.v[i]

OnsetIsFinite(i) == Loaded(i).time_of_onset.kind = "fin"

\* time_of_onset <= n and time_of_onset > n for the loaded row, n in years
OnsetAtMost(i, n) == OnsetIsFinite(i) /\ Loaded(i).time_of_onset.num <= n * OnsetDen
OnsetBeyond(i, n) == ~OnsetAtMost(i, n)

IsExampleRecord(i) ==
    /\ Loaded(i).observed_outcome = 1
    /\ Loaded(i).study_entry_age = 50
    /\ Loaded(i).study_exit_age = 60
    /\ Loaded(i).time_of_onset = Fin(8 * OnsetDen)

\* C6: a record with observed_outcome = 1 whose time_of_onset is greater than
\* the predicted risk interval P and not greater than the observed follow-up
\* gets followup = P and observed_outcome = 0 (entry 50, exit 60, onset 8 and
\* P = 5 give followup 5 and outcome 0).
C6_OnsetAfterIntervalIsCensored ==
    HasColumn("followup") =>
        \A i \in Records :
            /\ (/\ Loaded(i).observed_outcome = 1
                /\ OnsetBeyond(i, RequestedInterval(i))
                /\ OnsetAtMost(i, LoadedFollowup(i))) =>
                   /\ study_data[i].followup = RequestedInterval(i)
                   /\ study_data[i].observed_outcome = 0
            /\ (IsExampleRecord(i) /\ args.predicted_risk_interval = IntArg(5)) =>
                   /\ study_data[i].followup = 5
                   /\ study_data[i].observed_outcome = 0

\* the example record after the followup derivation with P = 5
C6_Witness ==
    /\ HasColumn("followup")
    /\ IsExampleRecord(1)
    /\ args.predicted_risk_interval = IntArg(5)
    /\ study_data[1].followup = 5
    /\ study_data[1].observed_outcome = 0
    /\ study_data[1].observed_followup = 10

\* C7 as claimed: a record with observed_outcome = 1 whose onset falls within
\* the predicted risk interval P gets followup = min(P, time_of_onset) and
\* keeps observed_outcome = 1 (entry 50, exit 60, onset 8 and P = 10 give
\* followup 8 and outcome 1).
C7_FollowupIsOnsetWithinInterval ==
    HasColumn("followup") =>
        \A i \in Records :
            /\ (/\ Loaded(i).observed_outcome = 1
                /\ OnsetAtMost(i, LoadedFollowup(i))
                /\ OnsetAtMost(i, RequestedInterval(i))) =>
                   /\ study_data[i].followup * OnsetDen = Loaded(i).time_of_onset.num
                   /\ study_data[i].observed_outcome = 1
            /\ (IsExampleRecord(i) /\ args.predicted_risk_interval = IntArg(10)) =>
                   /\ study_data[i].followup = 8
                   /\ study_data[i].observed_outcome = 1

\* C7 as amended: a record with observed_outcome = 1 whose onset falls within
\* the predicted risk interval P and within the observed follow-up gets
\* followup = min(P, observed follow-up) and keeps observed_outcome = 1 (entry
\* 50, exit 60, onset 8 and P = 10 give followup 10 and outcome 1).
C7_FollowupIsIntervalWithinFollowup ==
    HasColumn("followup") =>
        \A i \in Records :
            /\ (/\ Loaded(i).observed_outcome = 1
                /\ OnsetAtMost(i, LoadedFollowup(i))
                /\ OnsetAtMost(i, RequestedInterval(i))) =>
                   /\ study_data[i].followup =
                         Min(RequestedInterval(i), LoadedFollowup(i))
                   /\ study_data[i].observed_outcome = 1
            /\ (IsExampleRecord(i) /\ args.predicted_risk_interval = IntArg(10)) =>
                   /\ study_data[i].followup = 10
                   /\ study_data[i].observed_outcome = 1

\* the example record after the followup derivation with P = 10
C7_Witness ==
    /\ HasColumn("followup")
    /\ IsExampleRecord(1)
    /\ args.predicted_risk_interval = IntArg(10)
    /\ study_data[1].followup = 10
    /\ study_data[1].observed_outcome = 1

\* C8: after _calculate_followup_period every record has
\* followup = min(predicted_risk_interval, observed_followup), whatever its
\* outcome and time of onset; followup is never above the observed follow-up.
C8_FollowupIsMinOfIntervalAndObserved ==
    HasColumn("followup") =>
        \A i \in Records :
            /\ study_data[i].followup =
                  (IF RequestedInterval(i) <= LoadedFollowup(i)
                   THEN RequestedInterval(i) ELSE LoadedFollowup(i))
            /\ study_data[i].followup <= study_data[i].observed_followup
            /\ study_data[i].observed_followup = LoadedFollowup(i)
            /\ study_data[i].predicted_risk_interval = RequestedInterval(i)

\* a record without an onset whose interval is shorter than its observed
\* follow-up: the followup is cut at the prediction horizon
C8_Witness ==
    /\ HasColumn("followup")
    /\ ~OnsetIsFinite(1)
    /\ Loaded(1).observed_outcome = 0
    /\ 0 < RequestedInterval(1)
    /\ RequestedInterval(1) < LoadedFollowup(1)
    /\ study_data[1].followup = RequestedInterval(1)

Weight(i) ==
    IF "sampling_weights" \in study_file.columns
    THEN RDiv(ROne, Loaded(i).sampling_weights)
    ELSE ROne

RECURSIVE WeightedCount(_)
WeightedCount(S) ==
    IF S = {} THEN RZero
    ELSE LET i == CHOOSE i \in S : TRUE
         IN  RAdd(Weight(i), WeightedCount(S \ {i}))

\* the records in study at age a
InStudyAt(a) ==
    {i \in Records : /\ study_data[i].study_entry_age <= a - 1
                     /\ study_data[i].study_exit_age >= a}

\* entry age + time_of_onset, in units of 1 / OnsetDen years (finite onsets)
OnsetAgeNum(i) ==
    study_data[i].study_entry_age * OnsetDen + study_data[i].time_of_onset.num

\* N(a): the weighted count of the records in study at a with onset in [a, a+1)
OnsetsAt(a) ==
    WeightedCount({i \in InStudyAt(a) :
        /\ study_data[i].time_of_onset.kind = "fin"
        /\ a * OnsetDen <= OnsetAgeNum(i)
        /\ OnsetAgeNum(i) < (a + 1) * OnsetDen})

\* D(a): the weighted count of the records in study at a with onset at or after a
AtRiskAt(a) ==
    WeightedCount({i \in InStudyAt(a) :
        \/ study_data[i].time_of_onset.kind = "inf"
        \/ a * OnsetDen <= OnsetAgeNum(i)})

FirstTableAge == 1 + SeqMin([i \in Records |-> study_data[i].study_entry_age])
LastTableAge == SeqMax([i \in Records |-> study_data[i].study_exit_age]) - 1

\* C10: the study incidence table has one entry for each integer age from the
\* minimum entry age + 1 to the maximum exit age - 1, in increasing order; the
\* incidence at age a is N(a) / D(a), and it is not-a-number exactly when
\* D(a) is zero.
C10_StudyIncidenceTable ==
    mv_pc = "done" =>
        LET table == results.incidence_rates.study
        IN  /\ Len(table.age) = Max(LastTableAge - FirstTableAge + 1, 0)
            /\ Len(table.rate) = Len(table.age)
            /\ \A k \in 1..Len(table.age) :
                  LET a == table.age[k]
                  IN  /\ a = FirstTableAge + k - 1
                      /\ table.rate[k].nan <=> (AtRiskAt(a) = RZero)
                      /\ ~table.rate[k].nan =>
                            /\ RLt(RZero, AtRiskAt(a))
                            /\ REq(RMul(table.rate[k].rate, AtRiskAt(a)), OnsetsAt(a))

\* a nested study of two records with different weights: an age with an
\* incidence strictly between 0 and 1, and an age with nobody at risk
C10_Witness ==
    /\ mv_pc = "done"
    /\ nested_case_control_study
    /\ Len(study_data) = 2
    /\ Loaded(1).sampling_weights # Loaded(2).sampling_weights
    /\ LET table == results.incidence_rates.study
       IN  /\ \E k \in 1..Len(table.age) :
                 /\ ~table.rate[k].nan
                 /\ RLt(RZero, table.rate[k].rate)
                 /\ RLt(table.rate[k].rate, ROne)
           /\ \E k \in 1..Len(table.age) : table.rate[k].nan

(***************************************************************************)
(* Properties of the parameters and of the result of                       *)
(* compute_absolute_risk_split_interval, under SpecAbsoluteRisk.           *)
(***************************************************************************)
\* the parameter an after-cutpoint argument stands for in the after-cutpoint
\* run according to the rule: the argument itself, the before-cutpoint argument
\* when it is None
AfterOrBefore(after, before) == IF after = None THEN before ELSE after

\* C17: in the split path, each of the six after-cutpoint parameters that is
\* None is replaced by the corresponding before-cutpoint parameter and each
\* that is not None reaches the after-cutpoint run unchanged; the
\* before-cutpoint run receives the before-cutpoint parameters unchanged.
C17_AfterParametersDefaultToBefore ==
    /\ (run_split_interval /\ ar_pc \in {"after_cutpoint", "combine", "done"}) =>
          results_before_cutpoint.model =
             <<ar_args.model_covariate_formula_before_cutpoint_path,
               ar_args.model_log_relative_risk_before_cutpoint_path,
               ar_args.model_reference_dataset_before_cutpoint_path,
               ar_args.apply_covariate_profile_before_cutpoint_path,
               ar_args.model_reference_dataset_weights_variable_name_before_cutpoint,
               ar_args.model_family_history_variable_name_before_cutpoint>>
    /\ (run_split_interval /\ ar_pc \in {"combine", "done"}) =>
          results_after_cutpoint.model =
             <<AfterOrBefore(ar_args.model_covariate_formula_after_cutpoint_path,
                             ar_args.model_covariate_formula_before_cutpoint_path),
               AfterOrBefore(ar_args.model_log_relative_risk_after_cutpoint_path,
                             ar_args.model_log_relative_risk_before_cutpoint_path),
               AfterOrBefore(ar_args.model_reference_dataset_after_cutpoint_path,
                             ar_args.model_reference_dataset_before_cutpoint_path),
               AfterOrBefore(ar_args.apply_covariate_profile_after_cutpoint_path,
                             ar_args.apply_covariate_profile_before_cutpoint_path),
               AfterOrBefore(ar_args.model_reference_dataset_weights_variable_name_after_cutpoint,
                             ar_args.model_reference_dataset_weights_variable_name_before_cutpoint),
               AfterOrBefore(ar_args.model_family_history_variable_name_after_cutpoint,
                             ar_args.model_family_history_variable_name_before_cutpoint)>>

\* a split call that gave the after-cutpoint formula and the after-cutpoint
\* weights variable name and left the other four after-cutpoint parameters None
C17_Witness ==
    /\ ar_pc = "done"
    /\ run_split_interval
    /\ ar_args.model_covariate_formula_after_cutpoint_path # None
    /\ ar_args.model_reference_dataset_weights_variable_name_after_cutpoint # None
    /\ ar_args.model_log_relative_risk_after_cutpoint_path = None
    /\ ar_args.model_reference_dataset_after_cutpoint_path = None
    /\ ar_args.apply_covariate_profile_after_cutpoint_path = None
    /\ ar_args.model_family_history_variable_name_after_cutpoint = None
    /\ results_after_cutpoint.model # results_before_cutpoint.model

\* C18: every dictionary compute_absolute_risk_split_interval returns carries
\* the method name "iCARE - absolute risk with split intervals" and the model
\* entries before_cutpoint and after_cutpoint, whatever combination of
\* cut-point and after-cutpoint parameters (none of them included) is given.
C18_ResultIsSplitResult ==
    ar_pc = "done" =>
        /\ ar_results.method = "iCARE - absolute risk with split intervals"
        /\ ar_results.model = [before_cutpoint |-> results_before_cutpoint.model,
                               after_cutpoint |-> results_after_cutpoint.model]

(***************************************************************************)
(* Properties of validate_absolute_risk_model and of the risks             *)
(* ModelValidation obtains, under SpecValidateAbsoluteRiskModel.           *)
(***************************************************************************)
\* validate_absolute_risk_model has constructed ModelValidation's parameters
ValidateCallBound == call_args # None /\ mv_pc # "validate_absolute_risk_model"

\* C16: validate_absolute_risk_model hands each argument to the parameter of
\* ModelValidation of the same name: the dataset_name and model_name recorded
\* in the results are the caller's, the caller's reference_entry_age,
\* reference_exit_age, reference_predicted_risks, reference_linear_predictors,
\* number_of_percentiles and linear_predictor_cutoffs reach ModelValidation
\* under those names, and with no reference input no reference risks are
\* recorded.
C16_ArgumentsReachSameNames ==
    ValidateCallBound =>
        /\ results.dataset_name = call_args.dataset_name
        /\ results.model_name = call_args.model_name
        /\ args.reference_entry_age = call_args.reference_entry_age
        /\ args.reference_exit_age = call_args.reference_exit_age
        /\ args.reference_predicted_risks = call_args.reference_predicted_risks
        /\ args.reference_linear_predictors = call_args.reference_linear_predictors
        /\ args.number_of_percentiles = call_args.number_of_percentiles
        /\ args.linear_predictor_cutoffs = call_args.linear_predictor_cutoffs
        /\ (/\ call_args.reference_entry_age = None
            /\ call_args.reference_exit_age = None
            /\ call_args.reference_predicted_risks = None
            /\ call_args.reference_linear_predictors = None) =>
                "reference" \notin DOMAIN results

\* _calculate_risks has returned
RisksCalculated ==
    mv_pc \in {"calculate_reference_risks", "calculate_study_incidence_rates", "done"}

\* the engine runs a caller has made
RunsOf(caller) == {k \in 1..Len(engine_runs) : engine_runs[k].caller = caller}

\* both names are given and are columns of the study data
BothNamesAreColumns ==
    /\ args.predicted_risk_variable_name # None
    /\ args.linear_predictor_variable_name # None
    /\ args.predicted_risk_variable_name.v \in DOMAIN study_data[1]
    /\ args.linear_predictor_variable_name.v \in DOMAIN study_data[1]

\* C19: ModelValidation obtains the predicted risks from the engine exactly
\* when it is not the case that both predicted_risk_variable_name and
\* linear_predictor_variable_name are given and are columns of the study data;
\* the engine then runs over each record's own study_entry_age and its derived
\* followup; when both columns are given the engine is not run and the columns
\* are used as they are in the file.
C19_EngineRunsUnlessBothColumns ==
    (RisksCalculated /\ Len(study_data) > 0) =>
        /\ (RunsOf("_calculate_risks") # {}) <=> ~BothNamesAreColumns
        /\ ~BothNamesAreColumns =>
              \E k \in RunsOf("_calculate_risks") :
                 /\ RunsOf("_calculate_risks") = {k}
                 /\ Len(engine_runs[k].apply_age_start) = Len(study_data)
                 /\ Len(engine_runs[k].apply_age_interval_length) = Len(study_data)
                 /\ \A i \in 1..Len(study_data) :
                       /\ engine_runs[k].apply_age_start[i] = study_data[i].study_entry_age
                       /\ engine_runs[k].apply_age_interval_length[i] = study_data[i].followup
                       /\ study_data[i].risk_estimates = [engine_run |-> k]
                       /\ study_data[i].linear_predictors = [engine_run |-> k]
        /\ BothNamesAreColumns =>
              \A i \in 1..Len(study_data) :
                 /\ "risk_estimates" \notin DOMAIN study_data[i]
                 /\ "linear_predictors" \notin DOMAIN study_data[i]
                 /\ study_data[i][args.predicted_risk_variable_name.v] =
                       study_file.rows[i][args.predicted_risk_variable_name.v]
                 /\ study_data[i][args.linear_predictor_variable_name.v] =
                       study_file.rows[i][args.linear_predictor_variable_name.v]

\* a construction that names only the predicted risk column of a file that
\* has both columns, and runs the engine over two records with different
\* entry ages
C19_Witness ==
    /\ mv_pc = "done"
    /\ Len(study_data) = 2
    /\ {"risk", "lp"} \subseteq study_file.columns
    /\ args.predicted_risk_variable_name # None
    /\ args.linear_predictor_variable_name = None
    /\ study_data[1].study_entry_age # study_data[2].study_entry_age
    /\ RunsOf("_calculate_risks") # {}

\* _calculate_reference_risks has returned
ReferenceRisksCalculated == mv_pc \in {"calculate_study_incidence_rates", "done"}

\* exit age - entry age, of two integers or of two lists
ExitMinusEntry(entry, exit) ==
    IF entry.kind = "int" THEN IntArg(exit.v - entry.v)
    ELSE ListArg([i \in 1..Min(Len(entry.v), Len(exit.v)) |-> exit.v[i] - entry.v[i]])

\* C20: _calculate_reference_risks records the reference risks by a three-way
\* rule: when both reference_predicted_risks and reference_linear_predictors
\* are given they are recorded as given, the reference ages are ignored and
\* the engine is not run; otherwise, when both reference ages are given, the
\* engine runs over the reference dataset as its own covariate profile, with
\* no SNP profile, the entry age as the start and exit age - entry age as the
\* length of the interval; otherwise no reference risks are recorded.
C20_ReferenceRisksThreeWayRule ==
    ReferenceRisksCalculated =>
        LET given == /\ args.reference_predicted_risks # None
                     /\ args.reference_linear_predictors # None
            ages == /\ args.reference_entry_age # None
                    /\ args.reference_exit_age # None
            runs == RunsOf("_calculate_reference_risks")
        IN  /\ given =>
                  /\ runs = {}
                  /\ results.reference =
                        [absolute_risk |-> args.reference_predicted_risks,
                         risk_score |-> args.reference_linear_predictors]
            /\ (~given /\ ages) =>
                  \E k \in runs :
                     /\ runs = {k}
                     /\ engine_runs[k].reference_dataset_path =
                           args.icare_model_parameters.model_reference_dataset_path
                     /\ engine_runs[k].covariate_profile_path =
                           args.icare_model_parameters.model_reference_dataset_path
                     /\ engine_runs[k].snp_profile_path = None
                     /\ engine_runs[k].apply_age_start = args.reference_entry_age
                     /\ engine_runs[k].apply_age_interval_length =
                           ExitMinusEntry(args.reference_entry_age, args.reference_exit_age)
                     /\ results.reference = [absolute_risk |-> [engine_run |-> k],
                                             risk_score |-> [engine_run |-> k]]
            /\ (~given /\ ~ages) =>
                  /\ runs = {}
                  /\ "reference" \notin DOMAIN results

\* the engine ran over the reference dataset for lists of reference ages that
\* start above 0 for the second individual
C20_Witness ==
    /\ mv_pc = "done"
    /\ call_args = None
    /\ args.reference_predicted_risks = None
    /\ args.reference_entry_age = ListArg(<<0, 1>>)
    /\ args.reference_exit_age # None
    /\ RunsOf("_calculate_reference_risks") # {}
    /\ "reference" \in DOMAIN results

(***************************************************************************)
(* Properties of check_rates, check_flexible_rate_inputs and               *)
(* format_flexible_rate_inputs, under SpecRates.                           *)
(***************************************************************************)
\* the table handed to format_flexible_rate_inputs or, in check_rates, to the
\* first check_flexible_rate_inputs
GivenTable == rate_args.model_disease_incidence_rates

\* the table has the three columns of an interval table
IsIntervalTable(data) == data.columns = <<"start_age", "end_age", "rate">>

\* the table has the two columns of a per-age table
IsAgeRateTable(data) == data.columns = <<"age", "rate">>

\* the per-age rates of the normalised table at the ages of an interval row
RatesOfInterval(formatted, row) ==
    LET ages == {k \in 1..Len(formatted.rows) :
                    /\ formatted.rows[k].age >= row.start_age
                    /\ formatted.rows[k].age <= row.end_age}
        Pick(S) == CHOOSE k \in S : \A j \in S : k <= j
        RECURSIVE Cells(_)
        Cells(S) == IF S = {} THEN <<>>
                    ELSE <<formatted.rows[Pick(S)].rate>> \o Cells(S \ {Pick(S)})
    IN  Cells(ages)

\* C11: for every valid table of the columns start_age, end_age, rate, the
\* per-age rates of the normalised table over the ages of an interval sum to
\* the rate of that interval (each age receives the rate divided by the
\* number of ages of the interval).
C11_PerAgeRatesSumToIntervalRate ==
    (rt_pc = "formatted" /\ IsIntervalTable(GivenTable)) =>
        \A k \in 1..Len(GivenTable.rows) :
            LET total == FloatSum(RatesOfInterval(data_formatted, GivenTable.rows[k]))
            IN  /\ ~total.nan
                /\ REq(total.rate, GivenTable.rows[k].rate.rate)

\* C12: the normalised table has exactly one row for each integer age from
\* the smallest start_age through the largest end_age, none missing, and no
\* rate is undefined.
C12_OneRowPerAge ==
    (rt_pc = "formatted" /\ IsIntervalTable(GivenTable)) =>
        /\ Column(data_formatted.rows, "age") =
              Range(SeqMin(Column(GivenTable.rows, "start_age")),
                    SeqMax(Column(GivenTable.rows, "end_age")) + 1)
        /\ \A k \in 1..Len(data_formatted.rows) : ~data_formatted.rows[k].rate.nan

\* the coverage check of check_rates was reached and has acted
CoverageChecked ==
    /\ rt_pc \in {"done", "error"}
    /\ rt_lambda_vals # None
    /\ rt_competing_incidence_rates # None

\* some age the prediction needs is no value of the age column of the table
AgeWithoutRate(data) ==
    \E x \in 0..(MaxAge + 1) :
        /\ x >= SeqMin(rate_args.apply_age_start)
        /\ \E k \in 1..Len(rate_args.apply_age_start) :
              x < rate_args.apply_age_start[k] + rate_args.apply_age_interval_length[k]
        /\ \A k \in 1..Len(data.rows) : data.rows[k].age # x

\* C13: check_rates fails with a coverage error exactly when some integer age
\* in [min(apply_age_start), max(apply_age_start + apply_age_interval_length))
\* has no rate in the disease or in the competing table; a table whose age
\* column holds every such age is accepted.
C13_CoverageErrorIffAgeWithoutRate ==
    CoverageChecked =>
        ((rt_pc = "error" /\ rt_error \in {StrArg(ErrorDiseaseCoverage),
                                           StrArg(ErrorCompetingCoverage)})
         <=> (AgeWithoutRate(rt_lambda_vals) \/ AgeWithoutRate(rt_competing_incidence_rates)))

\* some rate of the table is below 0 or above 1
HasRateOutsideUnitInterval(data) ==
    \E k \in 1..Len(data.rows) :
        RLt(data.rows[k].rate.rate, RZero) \/ RLt(ROne, data.rows[k].rate.rate)

\* every interval starts one age after its predecessor ends
Contiguous(data) ==
    \A k \in 1..(Len(data.rows) - 1) :
        data.rows[k].end_age + 1 = data.rows[k + 1].start_age

\* the first check_flexible_rate_inputs of check_rates has acted
DiseaseRatesChecked == rt_pc \in {"competing_incidence_rates", "coverage", "done", "error"}

\* C14: check_flexible_rate_inputs accepts a table of three columns with more
\* than one interval (well-formed, its rates probabilities) exactly when every
\* adjacent pair of intervals is contiguous (end_age + 1 = the next
\* start_age), and raises the error about sequential intervals otherwise.
C14_SequentialErrorIffNotContiguous ==
    (/\ DiseaseRatesChecked
     /\ IsIntervalTable(GivenTable)
     /\ WellFormedIntervals(GivenTable)
     /\ ~HasRateOutsideUnitInterval(GivenTable)
     /\ Len(GivenTable.rows) > 1) =>
        ((rt_pc = "error" /\ rt_lambda_vals = None /\ rt_error = StrArg(ErrorSequential))
         <=> ~Contiguous(GivenTable))

\* the error about probabilities is the one a table meets that passes the
\* checks of its columns and has one row or two columns
ReachesRangeCheck(data) ==
    IsAgeRateTable(data) \/ (IsIntervalTable(data) /\ Len(data.rows) = 1)

\* C15: check_flexible_rate_inputs raises an error for every table of two or
\* three columns that holds a rate below 0 or above 1, before the table is
\* normalised (no normalised table is returned), and this is the error about
\* probabilities when the table reaches that check; a table whose rates all
\* lie in [0, 1] never raises the error about probabilities.
C15_RatesOutsideUnitIntervalRaise ==
    /\ (/\ DiseaseRatesChecked
        /\ Len(GivenTable.columns) \in {2, 3}
        /\ "rate" \in ColumnNames(GivenTable)) =>
          /\ HasRateOutsideUnitInterval(GivenTable) =>
                /\ rt_pc = "error"
                /\ rt_lambda_vals = None
                /\ ReachesRangeCheck(GivenTable) => rt_error = StrArg(ErrorProbabilities)
          /\ (rt_lambda_vals = None /\ rt_error = StrArg(ErrorProbabilities)) =>
                HasRateOutsideUnitInterval(GivenTable)
    /\ (/\ rt_pc \in {"coverage", "done", "error"}
        /\ rt_lambda_vals # None
        /\ rate_args.model_competing_incidence_rates # None) =>
          /\ HasRateOutsideUnitInterval(rate_args.model_competing_incidence_rates) =>
                /\ rt_pc = "error"
                /\ rt_competing_incidence_rates = None
                /\ rt_error = StrArg(ErrorProbabilities)
          /\ rt_error = StrArg(ErrorProbabilities) =>
                HasRateOutsideUnitInterval(rate_args.model_competing_incidence_rates)

\* a table of two columns with a negative rate was refused with the error
\* about probabilities
C15_Witness ==
    /\ rt_pc = "error"
    /\ rt_error = StrArg(ErrorProbabilities)
    /\ rt_lambda_vals = None
    /\ IsAgeRateTable(GivenTable)
    /\ \E k \in 1..Len(GivenTable.rows) : RLt(GivenTable.rows[k].rate.rate, RZero)

(***************************************************************************)
(* Paired inputs of ModelValidation, the order of its checks and its seed. *)
(***************************************************************************)
\* ModelValidation has received its parameters
ValidationStarted == mv_pc \notin {"idle", "validate_absolute_risk_model"}

\* one of the two column names is given and the other is not
ExactlyOneScoreName ==
    (args.predicted_risk_variable_name = None) # (args.linear_predictor_variable_name = None)

\* one of the two reference lists is given and the other is not
ExactlyOneReferenceList ==
    (args.reference_predicted_risks = None) # (args.reference_linear_predictors = None)

\* C21: a construction of ModelValidation that is given exactly one of
\* predicted_risk_variable_name and linear_predictor_variable_name, or exactly
\* one of reference_predicted_risks and reference_linear_predictors, fails:
\* it never completes and never records an incidence table.
C21_OneOfPairWithoutOtherFails ==
    (ValidationStarted /\ (ExactlyOneScoreName \/ ExactlyOneReferenceList)) =>
        /\ mv_pc # "done"
        /\ "incidence_rates" \notin DOMAIN results

\* C22: ModelValidation raises every error of its input validation before an
\* engine run is made: the checks of the reference risks and of the reference
\* age interval never fail after the engine run of _calculate_risks, so a
\* construction that ends in an error has made no engine run.
C22_ErrorsBeforeEngineRuns ==
    mv_pc = "error" => RunsOf("_calculate_risks") = {}

\* C23: a top-level call that is given a seed seeds the pseudo-random stream
\* once: when compute_absolute_risk_split_interval has made its runs before
\* and after the cut-point, and when ModelValidation has made its runs for the
\* predicted risks and for the reference risks, the stream has been seeded
\* one time and the second run has drawn from the stream the first one left.
C23_SeededOncePerCall ==
    /\ (ar_pc \in {"combine", "done"} /\ ar_args.seed # None) =>
          /\ random_stream.seedings = 1
          /\ run_split_interval => random_stream.draws = 2
    /\ (mv_pc = "done" /\ args.seed # None /\ engine_runs # <<>>) =>
          /\ random_stream.seedings = 1
          /\ random_stream.draws = Len(engine_runs)

(***************************************************************************)
(* The checks of the age arguments and of the family history variable.     *)
(***************************************************************************)
\* an integer or a list of integers
IntegerOrListOfIntegers(x) ==
    IsInstance(x, "int") \/ (IsInstance(x, "list") /\ ~AnyNotInt(x.v))

\* check_age_intervals was called and is over
AgeIntervalsChecked ==
    ck_pc = "done" /\ DOMAIN ck_args = {"apply_age_start", "apply_age_interval_length"}

\* C24: check_age_intervals returns without error when apply_age_start and
\* apply_age_interval_length are each an integer or a list of integers, and
\* raises ValueError only when one of them is neither.
C24_AgeIntervalsAcceptIntegers ==
    AgeIntervalsChecked =>
        (ck_result.raised <=>
            ~(/\ IntegerOrListOfIntegers(ck_args.apply_age_start)
              /\ IntegerOrListOfIntegers(ck_args.apply_age_interval_length)))

\* check_family_history was called and is over
FamilyHistoryChecked ==
    ck_pc = "done" /\ "model_family_history_variable_name" \in DOMAIN ck_args

\* the non-missing values of a column are exactly 0 and 1
IsBinary(column) == DropnaUnique(column) = {RZero, ROne}

\* the name is a string, a column of both datasets, and binary in both
NamesBinaryColumnOfBoth ==
    LET name == ck_args.model_family_history_variable_name
    IN  /\ IsInstance(name, "str")
        /\ name \in DOMAIN ck_args.model_reference_dataset
        /\ name \in DOMAIN ck_args.apply_covariate_profile
        /\ IsBinary(ck_args.model_reference_dataset[name])
        /\ IsBinary(ck_args.apply_covariate_profile[name])

\* C25: check_family_history returns without error when
\* model_family_history_variable_name is a string that names a column of the
\* reference dataset and of the covariate profile whose non-missing values
\* are exactly {0, 1} in each, and raises ValueError when the name is not a
\* string, when the column is absent from either dataset, or when either
\* column is not binary.
C25_FamilyHistoryAcceptsBinaryColumn ==
    FamilyHistoryChecked => (ck_result.raised <=> ~NamesBinaryColumnOfBoth)

\* check_age_lengths was called and is over
AgeLengthsChecked == ck_pc = "done" /\ "match_rows" \in DOMAIN ck_args

\* an age argument as one value per row of the profile: a scalar is repeated
\* for every row, an array is taken as it is
OnePerRow(arg) ==
    IF arg.kind = "int" THEN [i \in 1..ck_args.match_rows |-> Number(arg.v)] ELSE arg.v

\* one value per row of the profile, none missing, none below zero
ValidAges(a) ==
    /\ Len(a) = ck_args.match_rows
    /\ \A i \in 1..Len(a) : ~a[i].nan /\ a[i].value >= 0

\* C26: check_age_lengths broadcasts a scalar start age or interval length to
\* one value per row of the profile and returns the (start, length) arrays if
\* and only if both arrays have as many values as the profile has rows, hold
\* no missing value, and every start age and every interval length is >= 0 (a
\* zero-length interval is accepted); in every other case it raises ValueError
\* and returns nothing.
C26_AgeLengthsReturnIffValid ==
    AgeLengthsChecked =>
        LET start == OnePerRow(ck_args.apply_age_start)
            length == OnePerRow(ck_args.apply_age_interval_length)
        IN  IF ValidAges(start) /\ ValidAges(length)
            THEN ck_result = Returned(<<start, length>>)
            ELSE /\ ck_result.raised
                 /\ ck_result.error = "ValueError"
                 /\ "value" \notin DOMAIN ck_result

\* a scalar start age was broadcast to two rows and returned with an array of
\* interval lengths that holds a zero
C26_Witness ==
    /\ AgeLengthsChecked
    /\ ~ck_result.raised
    /\ ck_args.match_rows = 2
    /\ ck_args.apply_age_start.kind = "int"
    /\ ck_args.apply_age_interval_length.kind = "array"
    /\ Len(ck_result.value[1]) = 2
    /\ \E i \in 1..2 : ck_result.value[2][i].value = 0

(***************************************************************************)
(* The followup derivation and the study incidence table, under            *)
(* SpecValidation.                                                         *)
(***************************************************************************)
\* C27: after the study data is loaded and the followup is derived, every
\* record that still has observed_outcome = 1 has time_of_onset <= followup,
\* and so time_of_onset <= predicted_risk_interval and time_of_onset <=
\* observed_followup.
C27_CaseOnsetWithinFollowup ==
    HasColumn("followup") =>
        \A i \in Records :
            study_data[i].observed_outcome = 1 =>
                /\ FloatLeInt(study_data[i].time_of_onset, study_data[i].followup)
                /\ FloatLeInt(study_data[i].time_of_onset,
                              study_data[i].predicted_risk_interval)
                /\ FloatLeInt(study_data[i].time_of_onset, study_data[i].observed_followup)

\* a case whose onset lies within an interval that is shorter than its
\* observed follow-up, still a case after the followup derivation
C27_Witness ==
    /\ HasColumn("followup")
    /\ study_data[1].observed_outcome = 1
    /\ study_data[1].time_of_onset.kind = "fin"
    /\ study_data[1].time_of_onset.num > 0
    /\ study_data[1].predicted_risk_interval < study_data[1].observed_followup
    /\ study_data[1].followup = study_data[1].predicted_risk_interval

\* the step of _calculate_followup_period
FollowupPeriodStep == mv_pc = "calculate_followup_period" /\ mv_pc' = "calculate_risks"

\* C28: _calculate_followup_period changes only the followup column and the
\* observed_outcome column: every record keeps its time_of_onset,
\* study_entry_age, study_exit_age, observed_followup and
\* predicted_risk_interval (and every other column it had), no record is
\* added or dropped, no observed_outcome of 0 becomes 1, and a record that is
\* censored (outcome 1 to 0) keeps its finite time_of_onset.
C28_FollowupPeriodFrame ==
    [][FollowupPeriodStep =>
         /\ Len(study_data') = Len(study_data)
         /\ \A i \in Records :
               /\ DOMAIN study_data'[i] = DOMAIN study_data[i] \cup {"followup"}
               /\ \A c \in DOMAIN study_data[i] \ {"followup", "observed_outcome"} :
                     study_data'[i][c] = study_data[i][c]
               /\ study_data[i].observed_outcome = 0 => study_data'[i].observed_outcome = 0
               /\ (study_data[i].observed_outcome = 1 /\ study_data'[i].observed_outcome = 0)
                     => /\ study_data'[i].time_of_onset.kind = "fin"
                        /\ study_data'[i].time_of_onset = study_data[i].time_of_onset]_vars

\* a case that the followup derivation has censored, its time of onset
\* finite, in a nested case-control study (the record has further columns)
C28_Witness ==
    /\ HasColumn("followup")
    /\ HasColumn("frequency")
    /\ Loaded(1).observed_outcome = 1
    /\ study_data[1].observed_outcome = 0
    /\ study_data[1].time_of_onset.kind = "fin"
    /\ study_data[1].followup = study_data[1].predicted_risk_interval

\* the study data as _set_study_data leaves it, a function of the study file
\* alone
LoadedStudyData ==
    [i \in 1..Len(study_file.rows) |->
        LoadRow(study_file.rows[i], "sampling_weights" \in study_file.columns)]

\* C29: the study incidence table does not depend on predicted_risk_interval:
\* its ages and its incidence values are the ones computed from the study
\* data as loaded (entry age, exit age, time_of_onset and weight), so that two
\* validations of the same study data with different predicted risk intervals
\* yield the same table.
C29_IncidenceIndependentOfInterval ==
    mv_pc = "done" =>
        results.incidence_rates.study =
            StudyIncidence(LoadedStudyData, "sampling_weights" \in study_file.columns)

\* a validation with an integer interval that has censored a case the study
\* observed, and whose table holds an incidence above zero
C29_Witness ==
    /\ mv_pc = "done"
    /\ args.predicted_risk_interval.kind = "int"
    /\ \E i \in Records :
          /\ Loaded(i).observed_outcome = 1
          /\ study_data[i].observed_outcome = 0
          /\ study_data[i].time_of_onset.kind = "fin"
    /\ \E k \in 1..Len(results.incidence_rates.study.rate) :
          /\ ~results.incidence_rates.study.rate[k].nan
          /\ RLt(RZero, results.incidence_rates.study.rate[k].rate)

\* C30: for study data with strictly positive record weights, every defined
\* (non-NaN) value of the study incidence table lies in [0, 1]: at each age a
\* of the table the weighted count of onsets in [a, a + 1) among the records
\* in study does not exceed the weighted count of the records in study with
\* onset at or after a.
C30_IncidenceInUnitInterval ==
    (mv_pc = "done" /\ \A i \in Records : RLt(RZero, Weight(i))) =>
        LET table == results.incidence_rates.study
        IN  \A k \in 1..Len(table.age) :
               /\ RLe(OnsetsAt(table.age[k]), AtRiskAt(table.age[k]))
               /\ ~table.rate[k].nan =>
                     /\ RLe(RZero, table.rate[k].rate)
                     /\ RLe(table.rate[k].rate, ROne)

\* a nested study of two records with different weights whose table holds an
\* age at which everybody at risk has the onset and an age at which nobody
\* at risk has it
C30_Witness ==
    /\ mv_pc = "done"
    /\ nested_case_control_study
    /\ Len(study_data) = 2
    /\ Weight(1) # Weight(2)
    /\ LET table == results.incidence_rates.study
       IN  /\ \E k \in 1..Len(table.age) :
                 ~table.rate[k].nan /\ REq(table.rate[k].rate, ROne)
           /\ \E k \in 1..Len(table.age) :
                 ~table.rate[k].nan /\ REq(table.rate[k].rate, RZero)

====
